---- MODULE Spec2Model ----
(***************************************************************************)
(* Ambien Flux sample-and-hold slicer (daisy-seed-pedals): the slice       *)
(* store, the capture engine, the playback sequencer, the stutter policy   *)
(* and the freeze/bypass latches, as one state machine.                    *)
(*                                                                         *)
(* Units.  A knob value in [0,1] is an integer number of hundredths        *)
(* (0..100).  An audio sample is an integer number of hundredths of full   *)
(* scale (1.0 = 100), so the 1% hysteresis threshold 0.01f is 1.           *)
(* rand() % n is a choice from 0..n-1.                                     *)
(*                                                                         *)
(* Scaling.  MAX_SLICES, MAX_SLICE_LENGTH and MAX_ZERO_SEARCH are the      *)
(* program's #defines made small; SAMPLE_RATE keeps the source's relation  *)
(* MAX_SLICE_LENGTH = 500 ms of samples.  Every other number is the        *)
(* source's.                                                               *)
(***************************************************************************)
EXTENDS Integers, Sequences, FiniteSets, TLC

\* ------------------------------------------------------------------ bounds
\* #define MAX_SLICES 16, scaled
MAX_SLICES == 4
\* #define MAX_SLICE_LENGTH 24000 (500 ms @ 48 kHz), scaled
MAX_SLICE_LENGTH == 6
\* const int MAX_ZERO_SEARCH = 1000, scaled
MAX_ZERO_SEARCH == 2

\* --------------------------------------------------------------- constants
MIN_SLICE_LENGTH_MS == 100
MAX_SLICE_LENGTH_MS == 500
\* KNOB_TOUCH_THRESHOLD = 0.02f, in hundredths
KNOB_TOUCH_THRESHOLD == 2
\* minimum fade of 240 samples in PlaybackSlice
MIN_FADE_SAMPLES == 240
\* samples per second: MAX_SLICE_LENGTH is MAX_SLICE_LENGTH_MS of audio
SAMPLE_RATE == (MAX_SLICE_LENGTH * 1000) \div MAX_SLICE_LENGTH_MS

Knob == 0..100
Slices == 0..(MAX_SLICES - 1)
Offsets == 0..(MAX_SLICE_LENGTH - 1)

\* ----------------------------------------------------------------- helpers
Abs(x) == IF x < 0 THEN -x ELSE x

\* C integer/float-to-int conversion: truncation toward zero
TruncDiv(a, b) == IF a >= 0 THEN a \div b ELSE -((-a) \div b)

\* the values rand() % n can take
Rand(n) == 0..(n - 1)

\* floor(1000 * log10(1 + 9 * k / 100)) for k = 0..100: logf(1+9x)/logf(10)
LogCurveTable ==
  << 0, 37, 71, 103, 133, 161, 187, 212, 235, 257, 278, 298, 318, 336, 354,
     371, 387, 403, 418, 432, 447, 460, 474, 487, 499, 511, 523, 535, 546,
     557, 568, 578, 588, 598, 608, 618, 627, 636, 645, 654, 662, 671, 679,
     687, 695, 703, 710, 718, 725, 733, 740, 747, 754, 761, 767, 774, 781,
     787, 793, 800, 806, 812, 818, 824, 829, 835, 841, 846, 852, 857, 863,
     868, 873, 879, 884, 889, 894, 899, 904, 909, 913, 918, 923, 927, 932,
     937, 941, 945, 950, 954, 959, 963, 967, 971, 975, 980, 984, 988, 992,
     996, 1000 >>

\* log_knob in thousandths
LogKnob(k) == LogCurveTable[k + 1]

\* ProcessParameters: K4 -> active_slice_count
SliceCountOf(k) ==
  LET raw == ((k * 15999) \div 100000) + 1
  IN  IF raw < 1 THEN 1 ELSE IF raw > MAX_SLICES THEN MAX_SLICES ELSE raw

\* ProcessParameters: K5 -> slice_length_samples
\* slice_length_ms in thousandths of a millisecond, then (int)(ms/1000 * rate)
SliceLengthSamplesOf(k) ==
  LET ms1000 == MIN_SLICE_LENGTH_MS * 1000
                  + LogKnob(k) * (MAX_SLICE_LENGTH_MS - MIN_SLICE_LENGTH_MS)
      raw == (ms1000 * SAMPLE_RATE) \div 1000000
  IN  IF raw < 1 THEN 1
      ELSE IF raw > MAX_SLICE_LENGTH THEN MAX_SLICE_LENGTH ELSE raw

\* Fonepole with the fault of an exact one-pole: the smoothed length reaches
\* its target
FonepoleExact(out, in) == in

\* fonepole(out, in, 0.0002f): out += 0.0002f * (in - out), seen through
\* (int)out.  One model sample stands for MAX_SLICE_LENGTH_MS / MAX_SLICE_LENGTH
\* milliseconds of audio, over which the one-pole covers about half of the
\* remaining distance.  In single precision the increment rounds to nothing
\* once the distance is a few samples, so the value stalls short of the
\* target: below it when rising, above it when falling.
Fonepole(out, in) ==
  IF out < in THEN out + ((in - out) \div 2)
  ELSE IF out > in THEN out - ((out - in) \div 2)
  ELSE out

\* ---------------------------------------------------------- stutter system
\* Ambien Flux CalculateRepeatCount; r1, r2 are the two rand() % 100 draws
CalculateRepeatCount(stutter_knob, r1, r2) ==
  IF stutter_knob < 1 THEN 1
  ELSE IF r1 < stutter_knob
       THEN (IF r2 < 40 THEN 2
             ELSE IF r2 < 70 THEN 4
             ELSE IF r2 < 90 THEN 1
             ELSE 8)
       ELSE 1

\* CalculateRepeatCountBinned without its early return for k6_value < 0.01
CalculateRepeatCountBinnedNoGuard(k6_value, r) ==
  IF k6_value < 25 THEN (IF r < 9500 THEN 1 ELSE 2)
  ELSE IF k6_value < 50
       THEN (IF r < 6000 THEN 1 ELSE IF r < 9000 THEN 2 ELSE 4)
  ELSE IF k6_value < 75
       THEN (IF r < 3000 THEN 1
             ELSE IF r < 7000 THEN 2
             ELSE IF r < 9000 THEN 4
             ELSE 8)
  ELSE (IF r < 1000 THEN 1
        ELSE IF r < 4000 THEN 2
        ELSE IF r < 7000 THEN 4
        ELSE 8)

\* CalculateRepeatCountBinned with the fault of a first bin that takes its
\* threshold in
CalculateRepeatCountBinnedSkewed(k6_value, r) ==
  IF k6_value < 1 THEN 1
  ELSE IF k6_value < 25 THEN (IF r <= 9500 THEN 1 ELSE 2)
  ELSE IF k6_value < 50
       THEN (IF r <= 6000 THEN 1 ELSE IF r < 9000 THEN 2 ELSE 4)
  ELSE IF k6_value < 75
       THEN (IF r <= 3000 THEN 1
             ELSE IF r < 7000 THEN 2
             ELSE IF r < 9000 THEN 4
             ELSE 8)
  ELSE (IF r <= 1000 THEN 1
        ELSE IF r < 4000 THEN 2
        ELSE IF r < 7000 THEN 4
        ELSE 8)

\* CalculateRepeatCountBinned with the fault of a top bin that has the
\* weights of the lowest one
CalculateRepeatCountBinnedTopLow(k6_value, r) ==
  IF k6_value < 1 THEN 1
  ELSE IF k6_value < 25 THEN (IF r < 9500 THEN 1 ELSE 2)
  ELSE IF k6_value < 50
       THEN (IF r < 6000 THEN 1 ELSE IF r < 9000 THEN 2 ELSE 4)
  ELSE IF k6_value < 75
       THEN (IF r < 3000 THEN 1
             ELSE IF r < 7000 THEN 2
             ELSE IF r < 9000 THEN 4
             ELSE 8)
  ELSE (IF r < 9500 THEN 1 ELSE 2)

\* flux_main.cpp CalculateRepeatCount (binned policy); r is rand() % 10000,
\* random_val = r / 10000
CalculateRepeatCountBinned(k6_value, r) ==
  IF k6_value < 1 THEN 1
  ELSE IF k6_value < 25 THEN (IF r < 9500 THEN 1 ELSE 2)
  ELSE IF k6_value < 50
       THEN (IF r < 6000 THEN 1 ELSE IF r < 9000 THEN 2 ELSE 4)
  ELSE IF k6_value < 75
       THEN (IF r < 3000 THEN 1
             ELSE IF r < 7000 THEN 2
             ELSE IF r < 9000 THEN 4
             ELSE 8)
  ELSE (IF r < 1000 THEN 1
        ELSE IF r < 4000 THEN 2
        ELSE IF r < 7000 THEN 4
        ELSE 8)

\* every value one call CalculateRepeatCount(stutter) can return
RepeatCountChoices ==
  [s \in Knob |->
     IF s < 1 THEN {CalculateRepeatCount(s, 0, 0)}
     ELSE {CalculateRepeatCount(s, r1, r2) : r1 \in Rand(100), r2 \in Rand(100)}]

\* GetNextSlice with the fault of stepping backward in forward mode
GetNextSliceDescending(currentSlice, sliceCount, toggleMode, rSlice, rDir) ==
  IF toggleMode = 2
  THEN [next |-> rSlice, rev |-> (rDir = 0)]
  ELSE [next |-> IF currentSlice - 1 < 0 THEN sliceCount - 1
                 ELSE currentSlice - 1,
        rev |-> (toggleMode = 1)]

\* Ambien Flux GetNextSlice; rSlice is rand() % sliceCount, rDir is rand() % 2.
\* The result carries the slice index and the reverseFlag out-parameter.
GetNextSlice(currentSlice, sliceCount, toggleMode, rSlice, rDir) ==
  IF toggleMode = 2
  THEN [next |-> rSlice, rev |-> (rDir = 0)]
  ELSE IF toggleMode = 1
  THEN [next |-> IF currentSlice - 1 < 0 THEN sliceCount - 1
                 ELSE currentSlice - 1,
        rev |-> TRUE]
  ELSE [next |-> IF currentSlice + 1 >= sliceCount THEN 0
                 ELSE currentSlice + 1,
        rev |-> FALSE]

\* GetNextSliceFlux with the fault of stepping forward in reverse mode
GetNextSliceFluxForward(current, sliceCount, k6_value, mode, r, rSlice, rDir) ==
  LET doShuffle == r < 100 * k6_value
  IN  [next |-> IF doShuffle THEN rSlice ELSE (current + 1) % sliceCount,
       rev |-> IF mode = 2 THEN (rDir = 0) ELSE (mode = 1),
       shuffled |-> doShuffle]

\* GetNextSliceFlux with the fault of a shuffle draw that the stutter value
\* itself satisfies
GetNextSliceFluxInclusive(current, sliceCount, k6_value, mode, r, rSlice, rDir) ==
  LET doShuffle == r <= 100 * k6_value
      nextSlice ==
        IF doShuffle THEN rSlice
        ELSE IF mode = 1 THEN (current - 1 + sliceCount) % sliceCount
        ELSE (current + 1) % sliceCount
  IN  [next |-> nextSlice,
       rev |-> IF mode = 2 THEN (rDir = 0) ELSE (mode = 1),
       shuffled |-> doShuffle]

\* Flux GetNextSlice (flux_main.cpp); r is rand() % 10000 of the shuffle
\* draw, rSlice is rand() % sliceCount, rDir is rand() % 2. random_val < k6_value
\* with random_val = r / 10000 and k6_value in hundredths is r < 100 * k6_value.
GetNextSliceFlux(current, sliceCount, k6_value, mode, r, rSlice, rDir) ==
  LET doShuffle == r < 100 * k6_value
      nextSlice ==
        IF doShuffle THEN rSlice
        ELSE IF mode = 0 THEN (current + 1) % sliceCount
        ELSE IF mode = 1 THEN (current - 1 + sliceCount) % sliceCount
        ELSE (current + 1) % sliceCount
  IN  [next |-> nextSlice,
       rev |-> IF mode = 2 THEN (rDir = 0) ELSE (mode = 1),
       shuffled |-> doShuffle]

\* every result one call of GetNextSlice can have
NextSliceChoices(currentSlice, sliceCount, toggleMode) ==
  IF toggleMode = 2
  THEN {GetNextSlice(currentSlice, sliceCount, toggleMode, a, b) :
          a \in Rand(sliceCount), b \in Rand(2)}
  ELSE {GetNextSlice(currentSlice, sliceCount, toggleMode, 0, 0)}

\* ------------------------------------------------------------------- state
VARIABLES
  sliceBuffers, sliceLengths,
  currentCaptureSlice, capturePosition,
  waitingForZeroCrossing, previousCaptureSample, hasLeftZero, zeroSearchCount,
  currentPlaybackSlice, playbackPosition, hasContent, playbackReverse,
  repeatCount, targetRepeats,
  lastPlayedSlice, fadeLength,
  bypass, is_frozen,
  knob_mix, knob_feedback, knob_slice_count, knob_slice_length, knob_stutter,
  toggle_mode, prev_toggle3_pos, knob_prev, knob_touched,
  master_level, lofi_wobble, lofi_noise, lofi_bitcrush,
  active_slice_count, slice_length_samples, slice_length_samples_smooth,
  feedback_amount,
  bitcrush_hold_sample, bitcrush_sample_counter, lofi_filter_out,
  out,
  hw, sig, moves, running,
  ev, passLog, draw

storeVars == <<sliceBuffers, sliceLengths>>
captureVars ==
  <<currentCaptureSlice, capturePosition, waitingForZeroCrossing,
    previousCaptureSample, hasLeftZero, zeroSearchCount>>
playbackVars ==
  <<currentPlaybackSlice, playbackPosition, hasContent, playbackReverse,
    repeatCount, targetRepeats, lastPlayedSlice, fadeLength>>
controlVars ==
  <<bypass, is_frozen, knob_mix, knob_feedback, knob_slice_count,
    knob_slice_length, knob_stutter, toggle_mode, prev_toggle3_pos, knob_prev,
    knob_touched, master_level, lofi_wobble, lofi_noise, lofi_bitcrush,
    active_slice_count, slice_length_samples, feedback_amount>>
lofiVars ==
  <<bitcrush_hold_sample, bitcrush_sample_counter, lofi_filter_out>>
envVars == <<hw, sig, moves, running>>
vars ==
  <<storeVars, captureVars, playbackVars, controlVars,
    slice_length_samples_smooth, lofiVars, out, envVars, ev, passLog, draw>>

\* What the last step did (observation only; no action reads it back).
\* pb: the PlaybackSlice call, cap: the CaptureSlice call of the sample.
\* entered: hasContent at entry; posIn, repIn: position and repeat counter at
\* entry; capAtRead: the capture index during the call; ...AtCheck: the
\* cursor and its slice's length right after the collision check.
NoPlaybackObs ==
  [entered |-> FALSE, posIn |-> 0, repIn |-> 0, capAtRead |-> 0,
   collided |-> FALSE, sliceAtCheck |-> 0, posAtCheck |-> 0,
   repAtCheck |-> 0, trAtCheck |-> 0, lenAtCheck |-> 0,
   served |-> FALSE, silentEmpty |-> FALSE,
   readSlice |-> 0, readOffset |-> 0, readPos |-> 0, readLen |-> 0,
   readRev |-> FALSE, envNum |-> 0, envDen |-> 1,
   passDone |-> FALSE, passSlice |-> 0]
NoCaptureObs ==
  [wrote |-> FALSE, writeSlice |-> 0, writeOffset |-> 0, written |-> 0,
   finalized |-> FALSE, wasWaiting |-> FALSE, zeroCrossing |-> FALSE,
   searchCount |-> 0, finalLen |-> 0]
NoEvent ==
  [kind |-> "none", bypassed |-> FALSE, frozen |-> FALSE, input |-> 0,
   wet |-> 0, pb |-> NoPlaybackObs, cap |-> NoCaptureObs]

\* The repeat-count bench (DrawRepeatCount): a stutter value and the rand()
\* results of one draw, and, once made, what the two policies returned
NoDraw ==
  [made |-> FALSE, stutter |-> 0, r1 |-> 0, r2 |-> 0, r |-> 0,
   simplified |-> 0, binned |-> 0]

\* main(): InitializeSliceBuffers, the knob defaults, ProcessParameters
InitEngine ==
  /\ sliceBuffers = [s \in Slices |-> [o \in Offsets |-> 0]]
  /\ sliceLengths = [s \in Slices |-> 0]
  /\ currentCaptureSlice = 0
  /\ capturePosition = 0
  /\ waitingForZeroCrossing = FALSE
  /\ previousCaptureSample = 0
  /\ hasLeftZero = FALSE
  /\ zeroSearchCount = 0
  /\ currentPlaybackSlice = 0
  /\ playbackPosition = 0
  /\ hasContent = FALSE
  /\ playbackReverse = FALSE
  /\ repeatCount = 0
  /\ targetRepeats = 1
  /\ lastPlayedSlice = -1
  /\ fadeLength = 0
  /\ bypass = TRUE
  /\ is_frozen = FALSE
  /\ knob_mix = 50
  /\ knob_feedback = 30
  /\ knob_slice_count = 25
  /\ knob_slice_length = 40
  /\ knob_stutter = 0
  /\ toggle_mode = 0
  /\ prev_toggle3_pos = 0
  /\ knob_prev = [i \in 0..5 |-> 0]
  /\ knob_touched = [i \in 0..5 |-> TRUE]
  /\ master_level = 100
  /\ lofi_wobble = 0
  /\ lofi_noise = 0
  /\ lofi_bitcrush = 0
  /\ active_slice_count = SliceCountOf(25)
  /\ slice_length_samples = SliceLengthSamplesOf(40)
  /\ slice_length_samples_smooth = SliceLengthSamplesOf(40)
  /\ feedback_amount = 30
  /\ bitcrush_hold_sample = 0
  /\ bitcrush_sample_counter = 0
  /\ lofi_filter_out = 0
  /\ out = <<0, 0>>
  /\ ev = NoEvent
  /\ passLog = [n |-> 0, last |-> -1, prev |-> -1]

\* ------------------------------------------------------ control processing
\* The positions the six knobs and Toggle 1 and Toggle 3 can be in, given the
\* positions of each
HwSettings(k1, k2, k3, k4, k5, k6, t1, t3) ==
  {[k |-> [i \in 0..5 |-> kk[i + 1]], t1 |-> a, t3 |-> b] :
     kk \in k1 \X k2 \X k3 \X k4 \X k5 \X k6, a \in t1, b \in t3}

\* UpdateControls with the fault of touch flags that a move of Toggle 3 does
\* not reset
UpdateControlsJump(h, fs1, fs2) ==
  LET kv == h.k
      moved(i) == i >= 2 /\ Abs(kv[i] - knob_prev[i]) > KNOB_TOUCH_THRESHOLD
      switched == h.t3 # prev_toggle3_pos
      touched == [i \in 0..5 |->
                    IF moved(i) THEN TRUE ELSE knob_touched[i]]
      shift_mode == h.t3
      count == IF shift_mode = 0 /\ touched[3] THEN kv[3]
               ELSE knob_slice_count
      length == IF shift_mode = 0 /\ touched[4] THEN kv[4]
                ELSE knob_slice_length
      feedback == IF shift_mode = 0 /\ touched[2] THEN kv[2]
                  ELSE knob_feedback
  IN  /\ knob_touched' = touched
      /\ knob_prev' = [i \in 0..5 |->
                         IF i >= 2 /\ (switched \/ moved(i)) THEN kv[i]
                         ELSE knob_prev[i]]
      /\ prev_toggle3_pos' = h.t3
      /\ toggle_mode' = h.t1
      /\ master_level' = kv[0] * 2
      /\ knob_mix' = kv[1]
      /\ knob_feedback' = feedback
      /\ knob_slice_count' = count
      /\ knob_slice_length' = length
      /\ knob_stutter' = IF shift_mode = 0 /\ touched[5] THEN kv[5]
                         ELSE knob_stutter
      /\ lofi_wobble' = IF shift_mode # 0 /\ touched[2] THEN kv[2]
                        ELSE lofi_wobble
      /\ lofi_noise' = IF shift_mode # 0 /\ touched[3] THEN kv[3]
                       ELSE lofi_noise
      /\ lofi_bitcrush' = IF shift_mode # 0 /\ touched[4] THEN kv[4]
                          ELSE lofi_bitcrush
      \* UpdateButtons
      /\ bypass' = IF fs1 THEN ~bypass ELSE bypass
      /\ is_frozen' = IF fs2 THEN ~is_frozen ELSE is_frozen
      \* ProcessParameters
      /\ active_slice_count' = SliceCountOf(count)
      /\ slice_length_samples' = SliceLengthSamplesOf(length)
      /\ feedback_amount' = feedback

\* UpdateControls, UpdateButtons, (UpdateLEDs,) ProcessParameters: the head
\* of AudioCallback, for the knob and toggle readings h and the footswitch
\* rising edges fs1, fs2
UpdateControls(h, fs1, fs2) ==
  LET kv == h.k
      moved(i) == i >= 2 /\ Abs(kv[i] - knob_prev[i]) > KNOB_TOUCH_THRESHOLD
      switched == h.t3 # prev_toggle3_pos
      touched == [i \in 0..5 |->
                    IF i >= 2 /\ switched THEN FALSE
                    ELSE IF moved(i) THEN TRUE
                    ELSE knob_touched[i]]
      shift_mode == h.t3
      count == IF shift_mode = 0 /\ touched[3] THEN kv[3]
               ELSE knob_slice_count
      length == IF shift_mode = 0 /\ touched[4] THEN kv[4]
                ELSE knob_slice_length
      feedback == IF shift_mode = 0 /\ touched[2] THEN kv[2]
                  ELSE knob_feedback
  IN  /\ knob_touched' = touched
      /\ knob_prev' = [i \in 0..5 |->
                         IF i >= 2 /\ (switched \/ moved(i)) THEN kv[i]
                         ELSE knob_prev[i]]
      /\ prev_toggle3_pos' = h.t3
      /\ toggle_mode' = h.t1
      /\ master_level' = kv[0] * 2
      /\ knob_mix' = kv[1]
      /\ knob_feedback' = feedback
      /\ knob_slice_count' = count
      /\ knob_slice_length' = length
      /\ knob_stutter' = IF shift_mode = 0 /\ touched[5] THEN kv[5]
                         ELSE knob_stutter
      /\ lofi_wobble' = IF shift_mode # 0 /\ touched[2] THEN kv[2]
                        ELSE lofi_wobble
      /\ lofi_noise' = IF shift_mode # 0 /\ touched[3] THEN kv[3]
                       ELSE lofi_noise
      /\ lofi_bitcrush' = IF shift_mode # 0 /\ touched[4] THEN kv[4]
                          ELSE lofi_bitcrush
      \* UpdateButtons
      /\ bypass' = IF fs1 THEN ~bypass ELSE bypass
      /\ is_frozen' = IF fs2 THEN ~is_frozen ELSE is_frozen
      \* ProcessParameters
      /\ active_slice_count' = SliceCountOf(count)
      /\ slice_length_samples' = SliceLengthSamplesOf(length)
      /\ feedback_amount' = feedback

\* The head of one AudioCallback.  The knobs and toggles are where they were
\* at the last callback unless the player moved them; a move and a press of
\* a footswitch each count as one player action, of which E allows
\* E.maxMoves.  running: StartAudio has entered the callback at least once.
AudioCallbackControls(E) ==
  \E h \in (IF moves < E.maxMoves THEN E.settings \cup {hw} ELSE {hw}),
     fs1 \in E.fs1, fs2 \in E.fs2 :
    LET cost == (IF h = hw THEN 0 ELSE 1) + (IF fs1 THEN 1 ELSE 0)
                  + (IF fs2 THEN 1 ELSE 0)
    IN  /\ moves + cost <= E.maxMoves
        /\ hw' = h
        /\ moves' = moves + cost
        /\ running' = TRUE
        /\ UpdateControls(h, fs1, fs2)
        /\ UNCHANGED <<storeVars, captureVars, playbackVars,
                       slice_length_samples_smooth, lofiVars, out, sig, ev,
                       passLog, draw>>

\* ---------------------------------------------------------- slice playback
\* the playback cursor and the two function-local statics of PlaybackSlice
PlaybackCursor ==
  [cps |-> currentPlaybackSlice, pos |-> playbackPosition,
   rev |-> playbackReverse, rc |-> repeatCount, tr |-> targetRepeats,
   lps |-> lastPlayedSlice, fl |-> fadeLength, has |-> hasContent]

\* fadeLength as recomputed on a slice change
FadeLengthOf(currentSliceLen) ==
  LET f0 == (currentSliceLen * 15) \div 100
      f1 == IF f0 < MIN_FADE_SAMPLES THEN MIN_FADE_SAMPLES ELSE f0
      f2 == currentSliceLen \div 3
  IN  IF f1 * 2 > currentSliceLen THEN (IF f2 < 1 THEN 1 ELSE f2) ELSE f1

\* readPosition, with both defaulting-to-zero clamps
ReadPositionOf(reverse, position, sliceLen) ==
  LET rp == IF reverse
            THEN (IF position < sliceLen THEN sliceLen - 1 - position ELSE 0)
            ELSE position
  IN  IF rp < 0 \/ rp >= sliceLen THEN 0 ELSE rp

\* FadeEnvelopeNum with the fault of a fade-in ramp that is not held at 1
FadeEnvelopeNumRamp(position, fl, currentSliceLen) ==
  LET fadeOutStart == currentSliceLen - fl
      fadeOut == fl - (position - fadeOutStart)
  IN  IF fadeOutStart > 0 /\ position >= fadeOutStart /\ fadeOut < position
      THEN fadeOut ELSE position

\* fadeEnvelope as a numerator over fadeLength (fadeEnvelope = result / fl)
FadeEnvelopeNum(position, fl, currentSliceLen) ==
  LET fadeIn == IF position < fl THEN position ELSE fl
      fadeOutStart == currentSliceLen - fl
      fadeOut == fl - (position - fadeOutStart)
  IN  IF fadeOutStart > 0 /\ position >= fadeOutStart /\ fadeOut < fadeIn
      THEN fadeOut ELSE fadeIn

\* sliceBuffers[s][o]; outside the arena the read is undefined behaviour and
\* may yield any sample
ArenaProbe == {-100, 0, 100}
BufferRead(s, o) ==
  IF s \in Slices /\ o \in Offsets THEN {sliceBuffers[s][o]} ELSE ArenaProbe

\* ResolveCollision with the fault of keeping the playback position
ResolveCollisionNoRewind(p) ==
  IF p.cps = currentCaptureSlice
  THEN {[p EXCEPT !.cps = g.next, !.rev = g.rev, !.rc = 0, !.tr = t] :
          g \in NextSliceChoices(p.cps, active_slice_count, toggle_mode),
          t \in RepeatCountChoices[knob_stutter]}
  ELSE {p}

\* the conflict rule at the head of PlaybackSlice: forced advance
ResolveCollision(p) ==
  IF p.cps = currentCaptureSlice
  THEN {[p EXCEPT !.cps = g.next, !.rev = g.rev, !.pos = 0, !.rc = 0,
                  !.tr = t] :
          g \in NextSliceChoices(p.cps, active_slice_count, toggle_mode),
          t \in RepeatCountChoices[knob_stutter]}
  ELSE {p}

\* EndOfPass with the fault of one repeat too many
EndOfPassExtra(p) ==
  IF p.rc + 1 > p.tr
  THEN {[p EXCEPT
           !.cps = IF sliceLengths[g2.next] > 0 THEN g2.next ELSE p.cps,
           !.pos = 0, !.rev = g2.rev, !.rc = 0, !.tr = t] :
          g2 \in UNION {
                   IF g1.next = currentCaptureSlice
                   THEN NextSliceChoices(g1.next, active_slice_count,
                                         toggle_mode)
                   ELSE {g1} :
                   g1 \in NextSliceChoices(p.cps, active_slice_count,
                                           toggle_mode)},
          t \in RepeatCountChoices[knob_stutter]}
  ELSE {[p EXCEPT !.pos = 0, !.rc = p.rc + 1]}

\* EndOfPass with the fault of no test of the next slice's length
EndOfPassUnchecked(p) ==
  IF p.rc + 1 >= p.tr
  THEN {[p EXCEPT !.cps = g2.next, !.pos = 0, !.rev = g2.rev, !.rc = 0,
                  !.tr = t] :
          g2 \in UNION {
                   IF g1.next = currentCaptureSlice
                   THEN NextSliceChoices(g1.next, active_slice_count,
                                         toggle_mode)
                   ELSE {g1} :
                   g1 \in NextSliceChoices(p.cps, active_slice_count,
                                           toggle_mode)},
          t \in RepeatCountChoices[knob_stutter]}
  ELSE {[p EXCEPT !.pos = 0, !.rc = p.rc + 1]}

\* the end of a pass: repeat the slice, or move to the next one (skipping the
\* slice being captured, staying put if the next one is empty) and draw a
\* new target repeat count
EndOfPass(p) ==
  IF p.rc + 1 >= p.tr
  THEN {[p EXCEPT
           !.cps = IF sliceLengths[g2.next] > 0 THEN g2.next ELSE p.cps,
           !.pos = 0, !.rev = g2.rev, !.rc = 0, !.tr = t] :
          g2 \in UNION {
                   IF g1.next = currentCaptureSlice
                   THEN NextSliceChoices(g1.next, active_slice_count,
                                         toggle_mode)
                   ELSE {g1} :
                   g1 \in NextSliceChoices(p.cps, active_slice_count,
                                           toggle_mode)},
          t \in RepeatCountChoices[knob_stutter]}
  ELSE {[p EXCEPT !.pos = 0, !.rc = p.rc + 1]}

\* AdvancePlayback with the fault of an end-of-pass test that is one late
AdvancePlaybackLate(p) ==
  IF p.pos + 1 > sliceLengths[p.cps]
  THEN EndOfPass(p)
  ELSE {[p EXCEPT !.pos = p.pos + 1]}

\* AdvancePlayback with the fault of holding the cursor while frozen
AdvancePlaybackHeld(p) ==
  IF is_frozen THEN {p}
  ELSE IF p.pos + 1 >= sliceLengths[p.cps]
  THEN EndOfPass(p)
  ELSE {[p EXCEPT !.pos = p.pos + 1]}

\* the tail of PlaybackSlice: playbackPosition++, then the end-of-pass test
AdvancePlayback(p) ==
  IF p.pos + 1 >= sliceLengths[p.cps]
  THEN EndOfPass(p)
  ELSE {[p EXCEPT !.pos = p.pos + 1]}

\* PlaybackSlice from the read on, for the cursor p1 and the observation obs1
\* left by the collision check
ServeRead(p1, obs1) ==
  LET len == sliceLengths[p1.cps]
      readPosition == ReadPositionOf(p1.rev, p1.pos, len)
      sliceChanged == (p1.cps # p1.lps) \/ (p1.pos = 0)
      fl == IF sliceChanged THEN FadeLengthOf(len) ELSE p1.fl
      env == FadeEnvelopeNum(p1.pos, fl, len)
      p2 == [p1 EXCEPT !.lps = IF sliceChanged THEN p1.cps ELSE p1.lps,
                       !.fl = fl]
      obs2 == [obs1 EXCEPT
                 !.served = TRUE, !.readSlice = p1.cps,
                 !.readOffset = readPosition, !.readPos = p1.pos,
                 !.readLen = len, !.readRev = p1.rev,
                 !.envNum = env, !.envDen = fl,
                 !.passDone = (p1.pos + 1 >= len),
                 !.passSlice = p1.cps]
  IN  {[p |-> p3, wet |-> TruncDiv(sample * env, fl), o |-> obs2] :
         sample \in BufferRead(p1.cps, readPosition),
         p3 \in AdvancePlayback(p2)}

\* PlaybackSlice with the fault of no empty-slice test: the read is served
\* from a slice of length 0
PlaybackSliceStale ==
  LET p0 == PlaybackCursor
      obs0 == [NoPlaybackObs EXCEPT !.entered = hasContent,
                                    !.posIn = p0.pos, !.repIn = p0.rc,
                                    !.capAtRead = currentCaptureSlice]
  IN  IF ~hasContent
      THEN {[p |-> p0, wet |-> 0, o |-> obs0]}
      ELSE UNION {
        ServeRead(p1,
                  [obs0 EXCEPT !.collided = (p0.cps = currentCaptureSlice),
                               !.sliceAtCheck = p1.cps,
                               !.posAtCheck = p1.pos,
                               !.repAtCheck = p1.rc,
                               !.trAtCheck = p1.tr,
                               !.lenAtCheck = sliceLengths[p1.cps]]) :
        p1 \in ResolveCollision(p0)}

\* PlaybackSlice(): every outcome [p: the cursor afterwards, wet: the sample
\* returned, o: what happened]
PlaybackSlice ==
  LET p0 == PlaybackCursor
      obs0 == [NoPlaybackObs EXCEPT !.entered = hasContent,
                                    !.posIn = p0.pos, !.repIn = p0.rc,
                                    !.capAtRead = currentCaptureSlice]
  IN  IF ~hasContent
      THEN {[p |-> p0, wet |-> 0, o |-> obs0]}
      ELSE UNION {
        LET obs1 == [obs0 EXCEPT !.collided = (p0.cps = currentCaptureSlice),
                                 !.sliceAtCheck = p1.cps,
                                 !.posAtCheck = p1.pos,
                                 !.repAtCheck = p1.rc,
                                 !.trAtCheck = p1.tr,
                                 !.lenAtCheck = sliceLengths[p1.cps]]
        IN  IF sliceLengths[p1.cps] = 0
            THEN {[p |-> p1, wet |-> 0,
                   o |-> [obs1 EXCEPT !.silentEmpty = TRUE]]}
            ELSE ServeRead(p1, obs1) :
        p1 \in ResolveCollision(p0)}

\* ----------------------------------------------------------- slice capture
CaptureCursor ==
  [ccs |-> currentCaptureSlice, cp |-> capturePosition,
   waiting |-> waitingForZeroCrossing, prev |-> previousCaptureSample,
   hlz |-> hasLeftZero, zsc |-> zeroSearchCount]

\* ShouldFinalize with the fault of no capacity test
ShouldFinalizeNoCapacity(zeroCrossing, searchCount, position) ==
  \/ zeroCrossing
  \/ searchCount >= MAX_ZERO_SEARCH

\* ShouldFinalize with the fault of a timeout one sample late
ShouldFinalizeLate(zeroCrossing, searchCount, position) ==
  \/ zeroCrossing
  \/ searchCount > MAX_ZERO_SEARCH
  \/ position >= MAX_SLICE_LENGTH - 1

\* the three tests of the zero-crossing search, taken after the sample was
\* stored and the write offset and the search counter were incremented
ShouldFinalize(zeroCrossing, searchCount, position) ==
  \/ zeroCrossing
  \/ searchCount >= MAX_ZERO_SEARCH
  \/ position >= MAX_SLICE_LENGTH - 1

\* ZeroCrossing with the fault of no hysteresis: every sign flip counts
ZeroCrossingNoHysteresis(leftZero, previous, input) ==
  \/ (previous > 0 /\ input <= 0)
  \/ (previous < 0 /\ input >= 0)

\* the zeroCrossing test: a sign flip against previousCaptureSample, counted
\* only once hasLeftZero is set
ZeroCrossing(leftZero, previous, input) ==
  leftZero /\ (\/ (previous > 0 /\ input <= 0)
               \/ (previous < 0 /\ input >= 0))

\* FinalizedCursor with the fault of keeping the previous-sample memory
FinalizedCursorKeepsPrevious(n, input) ==
  [ccs |-> n, cp |-> 0, waiting |-> FALSE, prev |-> input, hlz |-> FALSE,
   zsc |-> 0]

\* the capture cursor a finalize leaves, on the capture index n
FinalizedCursor(n, input) ==
  [ccs |-> n, cp |-> 0, waiting |-> FALSE, prev |-> 0, hlz |-> FALSE,
   zsc |-> 0]

\* the capture index after a finalize
NextCaptureSlices(ccs) ==
  IF toggle_mode = 2 THEN Rand(active_slice_count)
  ELSE {IF ccs + 1 >= active_slice_count THEN 0 ELSE ccs + 1}

\* StartPlayback with the fault of starting forward in every mode
StartPlaybackForward(p, ccs) ==
  IF p.has THEN {p}
  ELSE {[p EXCEPT !.has = TRUE, !.cps = ccs, !.pos = 0, !.rc = 0, !.tr = t,
                  !.rev = FALSE] :
          t \in RepeatCountChoices[knob_stutter]}

\* the playback cursor after a finalize: started on the first one
StartPlayback(p, ccs) ==
  IF p.has THEN {p}
  ELSE {[p EXCEPT !.has = TRUE, !.cps = ccs, !.pos = 0, !.rc = 0, !.tr = t,
                  !.rev = r] :
          t \in RepeatCountChoices[knob_stutter],
          r \in IF toggle_mode = 2 THEN {(d = 0) : d \in Rand(2)}
                ELSE {toggle_mode = 1}}

\* CaptureSlice(input) past the frozen test, with the smoothed target length
\* smooth and the playback cursor p left by PlaybackSlice: every outcome
\* [c: capture cursor, buf, lens: the slice store, p: playback cursor,
\* o: what happened]
CaptureSample(input, smooth, p) ==
  LET c0 == CaptureCursor
      hlz1 == c0.hlz \/ Abs(input) > 1
      zeroCrossing == ZeroCrossing(hlz1, c0.prev, input)
      inArena == c0.ccs \in Slices /\ c0.cp \in Offsets
      \* outside the arena the store is undefined behaviour: the write lands
      \* in whatever follows the row, the slices keep their cells
      buf1 == IF inArena
              THEN [sliceBuffers EXCEPT ![c0.ccs][c0.cp] = input]
              ELSE sliceBuffers
      cp1 == c0.cp + 1
      zsc1 == IF c0.waiting THEN c0.zsc + 1 ELSE c0.zsc
      shouldFinalize == c0.waiting /\ ShouldFinalize(zeroCrossing, zsc1, cp1)
      startSearch == ~c0.waiting /\ cp1 >= smooth
      obs1 == [NoCaptureObs EXCEPT
                 !.wasWaiting = c0.waiting,
                 !.wrote = TRUE, !.writeSlice = c0.ccs,
                 !.writeOffset = c0.cp, !.written = input,
                 !.finalized = shouldFinalize,
                 !.zeroCrossing = zeroCrossing,
                 !.searchCount = zsc1,
                 !.finalLen = cp1]
  IN  IF shouldFinalize
      THEN {[c |-> FinalizedCursor(n, input),
             buf |-> buf1,
             lens |-> [sliceLengths EXCEPT ![c0.ccs] = cp1],
             p |-> q, o |-> obs1] :
              n \in NextCaptureSlices(c0.ccs),
              q \in StartPlayback(p, c0.ccs)}
      ELSE {[c |-> [ccs |-> c0.ccs, cp |-> cp1,
                    waiting |-> c0.waiting \/ startSearch,
                    prev |-> input,
                    hlz |-> IF startSearch THEN FALSE ELSE hlz1,
                    zsc |-> IF startSearch THEN 0 ELSE zsc1],
             buf |-> buf1, lens |-> sliceLengths, p |-> p, o |-> obs1]}

\* CaptureSlice with the fault of not testing is_frozen
CaptureSliceAlways(input, smooth, p) == CaptureSample(input, smooth, p)

\* CaptureSlice with the fault of yielding to playback: no capture while the
\* playback cursor is on the capture slice
CaptureSliceYielding(input, smooth, p) ==
  IF is_frozen \/ p.cps = currentCaptureSlice
  THEN {[c |-> CaptureCursor, buf |-> sliceBuffers, lens |-> sliceLengths,
         p |-> p,
         o |-> [NoCaptureObs EXCEPT !.wasWaiting = waitingForZeroCrossing]]}
  ELSE CaptureSample(input, smooth, p)

\* CaptureSlice(input): nothing while frozen
CaptureSlice(input, smooth, p) ==
  IF is_frozen
  THEN {[c |-> CaptureCursor, buf |-> sliceBuffers, lens |-> sliceLengths,
         p |-> p,
         o |-> [NoCaptureObs EXCEPT !.wasWaiting = waitingForZeroCrossing]]}
  ELSE CaptureSample(input, smooth, p)

\* ---------------------------------------------------------- audio callback
\* CustomBitCrush(input, amount): every outcome [y: the sample returned,
\* hold, counter: the sample-and-hold statics, f: the filter output].  The
\* low-pass lofi_filter moves its output toward the held sample.
Between(a, b) == IF a <= b THEN a..b ELSE b..a
\* CustomBitCrush with the fault of no early return at amount 0
CustomBitCrushNoBypass(input, amount) ==
  LET downsample_rate == 1 + ((amount * amount * 31) \div 10000)
      update == bitcrush_sample_counter >= downsample_rate
      hold == IF update THEN input ELSE bitcrush_hold_sample
      counter == (IF update THEN 0 ELSE bitcrush_sample_counter) + 1
  IN  {[y |-> f, hold |-> hold, counter |-> counter, f |-> f] :
         f \in Between(lofi_filter_out, hold)}

CustomBitCrush(input, amount) ==
  IF amount <= 0
  THEN {[y |-> input, hold |-> bitcrush_hold_sample,
         counter |-> bitcrush_sample_counter, f |-> lofi_filter_out]}
  ELSE LET downsample_rate == 1 + ((amount * amount * 31) \div 10000)
           update == bitcrush_sample_counter >= downsample_rate
           hold == IF update THEN input ELSE bitcrush_hold_sample
           counter == (IF update THEN 0 ELSE bitcrush_sample_counter) + 1
       IN  {[y |-> f, hold |-> hold, counter |-> counter, f |-> f] :
              f \in Between(lofi_filter_out, hold)}

\* mix.Process(dry, wet) at position knob_mix (linear crossfade), then
\* wobble, dust and master level; wobbled is the sample read back from the
\* wobble delay line and dust_signal the filtered Dust output (0..100)
OutputChain(dry, wet, wobbled, dust_signal) ==
  LET mixed == TruncDiv(dry * (100 - knob_mix) + wet * knob_mix, 100)
      wobble_mix == (lofi_wobble * lofi_wobble) \div 2
      afterWobble ==
        IF lofi_wobble > 0 /\ knob_mix > 1
        THEN TruncDiv(mixed * (10000 - wobble_mix) + wobbled * wobble_mix,
                      10000)
        ELSE mixed
      mix_amount == (lofi_noise * lofi_noise * 5) \div 100
      afterDust ==
        IF lofi_noise > 0 /\ knob_mix > 1
        THEN afterWobble + TruncDiv((dust_signal - 50) * mix_amount, 10000)
        ELSE afterWobble
  IN  TruncDiv(afterDust * master_level, 100)

\* the pass log: how many passes were completed (3 stands for 3 or more),
\* the slice of the last one and of the one before
LogPass(o) ==
  IF o.passDone
  THEN [n |-> IF passLog.n < 3 THEN passLog.n + 1 ELSE 3,
        last |-> o.passSlice, prev |-> passLog.last]
  ELSE passLog

\* BypassOutput with the fault of muting the output while bypassed
BypassOutputMuted(input) == 0

\* the else branch of if (!bypass): output = input
BypassOutput(input) == input

\* one iteration of the per-sample loop of AudioCallback (the loop runs
\* after the head of the callback)
ProcessSample(E) ==
  LET smooth == Fonepole(slice_length_samples_smooth, slice_length_samples)
      input == sig.wave[sig.phase]
  IN
    /\ running
    /\ slice_length_samples_smooth' = smooth
    /\ sig' = [sig EXCEPT !.phase = (sig.phase % Len(sig.wave)) + 1]
    /\ UNCHANGED <<controlVars, hw, moves, running, draw>>
    /\ IF bypass
       THEN /\ out' = <<BypassOutput(input), BypassOutput(input)>>
            /\ ev' = [NoEvent EXCEPT !.kind = "sample", !.bypassed = TRUE,
                                     !.frozen = is_frozen, !.input = input]
            /\ UNCHANGED <<storeVars, captureVars, playbackVars, lofiVars,
                           passLog>>
       ELSE \E crushed \in CustomBitCrush(input, lofi_bitcrush),
               played \in PlaybackSlice :
            \E captured \in CaptureSlice(
                  crushed.y + TruncDiv(played.wet * feedback_amount, 100),
                  smooth, played.p),
               wobbled \in E.wobbled, dust_signal \in E.dust :
              LET output == OutputChain(input, played.wet, wobbled,
                                        dust_signal)
                  c == captured.c
                  q == captured.p
              IN  /\ bitcrush_hold_sample' = crushed.hold
                  /\ bitcrush_sample_counter' = crushed.counter
                  /\ lofi_filter_out' = crushed.f
                  /\ sliceBuffers' = captured.buf
                  /\ sliceLengths' = captured.lens
                  /\ currentCaptureSlice' = c.ccs
                  /\ capturePosition' = c.cp
                  /\ waitingForZeroCrossing' = c.waiting
                  /\ previousCaptureSample' = c.prev
                  /\ hasLeftZero' = c.hlz
                  /\ zeroSearchCount' = c.zsc
                  /\ currentPlaybackSlice' = q.cps
                  /\ playbackPosition' = q.pos
                  /\ hasContent' = q.has
                  /\ playbackReverse' = q.rev
                  /\ repeatCount' = q.rc
                  /\ targetRepeats' = q.tr
                  /\ lastPlayedSlice' = q.lps
                  /\ fadeLength' = q.fl
                  /\ out' = <<output, output>>
                  /\ passLog' = LogPass(played.o)
                  /\ ev' = [kind |-> "sample", bypassed |-> FALSE,
                            frozen |-> is_frozen, input |-> input,
                            wet |-> played.wet, pb |-> played.o,
                            cap |-> captured.o]

\* What one pass of the sample loop (effect on) does to the engine from the
\* current state if feedback_amount is f: every [wet: the sample
\* PlaybackSlice returned, c, buf, lens, p: the capture cursor, the slice
\* store and the playback cursor after CaptureSlice]
FeedbackOutcomes(f) ==
  LET smooth == Fonepole(slice_length_samples_smooth, slice_length_samples)
      input == sig.wave[sig.phase]
  IN  UNION {{[wet |-> played.wet, c |-> captured.c, buf |-> captured.buf,
               lens |-> captured.lens, p |-> captured.p] :
                captured \in CaptureSlice(
                  crushed.y + TruncDiv(played.wet * f, 100), smooth,
                  played.p)} :
               crushed \in CustomBitCrush(input, lofi_bitcrush),
               played \in PlaybackSlice}

\* ---------------------------------------------------------- specifications
\* the engine after main(), the hardware and the input signal as E allows
InitWith(E) ==
  /\ InitEngine
  /\ \E st \in E.start :
       /\ hw = st.hw
       /\ sig = [wave |-> st.wave, phase |-> 1]
  /\ moves = 0
  /\ running = FALSE
  /\ draw = NoDraw

\* how many player actions (knob or toggle moves, footswitch presses) the
\* general specification follows
MaxMoves == 2

\* An environment E says what the hardware can deliver: start, the positions
\* of the knobs and toggles at power-up, each with the periodic signal at the
\* input jack (one period of it); settings, the positions the player can
\* move the knobs and toggles to; fs1 and fs2, the footswitch edges a
\* callback can see; wobbled and dust, the samples the wobble delay line and
\* the dust generator can produce; maxMoves, the number of player actions.
Starts(settings, waves) ==
  {[hw |-> h, wave |-> w] : h \in settings, w \in waves}

\* The general environment.  The knobs stay where they are at power-up:
\* forward mode with 1..3 slices of the shortest length and 2 slices of the
\* longest, reverse mode with 2 slices of either length, random mode with
\* 2 slices, forward mode at full stutter with 2 slices.  The input is steady,
\* alternating or a slower square.  The player presses the footswitches at
\* any time.
GeneralStarts ==
  Starts(HwSettings({50}, {50}, {0}, {0, 7, 13}, {0}, {0}, {0}, {0})
           \cup HwSettings({50}, {50}, {0}, {7}, {100}, {0}, {0}, {0}),
         {<<50>>, <<50, -50>>, <<50, 50, -50>>})
  \cup Starts(HwSettings({50}, {50}, {0}, {7}, {0, 100}, {0}, {1}, {0}),
              {<<50>>, <<50, 50, -50>>})
  \cup Starts(HwSettings({50}, {50}, {0}, {7}, {0}, {0}, {2}, {0}),
              {<<50, -50>>})
  \cup Starts(HwSettings({50}, {50}, {0}, {7}, {0}, {100}, {0}, {0}),
              {<<50, 50, -50>>})
EnvGeneral ==
  [start |-> GeneralStarts, settings |-> {},
   fs1 |-> BOOLEAN, fs2 |-> BOOLEAN,
   wobbled |-> {0}, dust |-> {0},
   maxMoves |-> MaxMoves]

Init == InitWith(EnvGeneral)

Next ==
  \/ AudioCallbackControls(EnvGeneral)
  \/ ProcessSample(EnvGeneral)

Spec == Init /\ [][Next]_vars

\* Scenario A: slice count 4 (K4 at 25%), forward mode, stutter 0, the
\* shortest or the longest slice length, and inputs for which every slice
\* finalizes with the same length (steady, or alternating every sample);
\* the player switches the effect on, at any time, and touches nothing else.
EnvScenarioA ==
  [start |-> Starts(HwSettings({50}, {50}, {0}, {25}, {0, 100}, {0}, {0},
                               {0}),
                    {<<50>>, <<-50>>, <<50, -50>>}),
   settings |-> {},
   fs1 |-> BOOLEAN, fs2 |-> {FALSE},
   wobbled |-> {0}, dust |-> {0},
   maxMoves |-> 1]

InitScenarioA == InitWith(EnvScenarioA)

NextScenarioA ==
  \/ AudioCallbackControls(EnvScenarioA)
  \/ ProcessSample(EnvScenarioA)

SpecScenarioA == InitScenarioA /\ [][NextScenarioA]_vars

\* Shortening: random mode with 2 slices, the slice-length knob at its
\* maximum at power-up; the player switches the effect on and turns the
\* slice-length knob to its minimum, at any time.
EnvShorten ==
  [start |-> Starts(HwSettings({50}, {50}, {0}, {7}, {100}, {0}, {2}, {0}),
                    {<<50>>}),
   settings |-> HwSettings({50}, {50}, {0}, {7}, {0}, {0}, {2}, {0}),
   fs1 |-> BOOLEAN, fs2 |-> {FALSE},
   wobbled |-> {0}, dust |-> {0},
   maxMoves |-> MaxMoves]

InitShorten == InitWith(EnvShorten)

NextShorten ==
  \/ AudioCallbackControls(EnvShorten)
  \/ ProcessSample(EnvShorten)

SpecShorten == InitShorten /\ [][NextShorten]_vars

\* Levels and reverse capture: forward mode with 2 slices, the level knob at
\* unity or at its maximum, the mix knob fully dry or halfway, feedback off
\* or halfway, with a full-scale input; reverse mode with 3 slices.  The
\* lo-fi controls stay at 0 while the wobble delay line and the dust
\* generator can deliver anything.  The player presses the bypass footswitch
\* at any time.
WideStarts ==
  Starts(HwSettings({50, 100}, {0, 50}, {0, 50}, {7}, {0}, {0}, {0}, {0}),
         {<<100>>, <<100, -100>>})
  \cup Starts(HwSettings({50}, {50}, {0}, {13}, {0}, {0}, {1}, {0}),
              {<<50, 50, -50>>})

EnvWide ==
  [start |-> WideStarts,
   settings |-> {},
   fs1 |-> BOOLEAN, fs2 |-> {FALSE},
   wobbled |-> {-100, 100}, dust |-> {0, 100},
   maxMoves |-> MaxMoves]

InitWide == InitWith(EnvWide)

NextWide ==
  \/ AudioCallbackControls(EnvWide)
  \/ ProcessSample(EnvWide)

SpecWide == InitWide /\ [][NextWide]_vars

\* Quiet and loud input: forward mode with 2 slices of the shortest length;
\* the input stays at 1% of full scale, or leaves it once per period, or is
\* loud.  The player presses the bypass footswitch at any time.
EnvQuiet ==
  [start |-> Starts(HwSettings({50}, {50}, {0}, {7}, {0}, {0}, {0}, {0}),
                    {<<1, -1>>, <<1, -1, 1, -2>>, <<1, 0, -1>>,
                     <<50, -50>>, <<50, 1, -1>>}),
   settings |-> {},
   fs1 |-> BOOLEAN, fs2 |-> {FALSE},
   wobbled |-> {0}, dust |-> {0},
   maxMoves |-> MaxMoves]

InitQuiet == InitWith(EnvQuiet)

NextQuiet ==
  \/ AudioCallbackControls(EnvQuiet)
  \/ ProcessSample(EnvQuiet)

SpecQuiet == InitQuiet /\ [][NextQuiet]_vars

\* Toggle 1 moved: 2 slices of the shortest length, without stutter or at
\* full stutter, forward or reverse mode at power-up; the player switches
\* the effect on and moves Toggle 1 between UP and MIDDLE, at any time.
EnvToggle ==
  [start |-> Starts(HwSettings({50}, {50}, {0}, {7}, {0}, {0}, {0, 1}, {0}),
                    {<<50, -50>>})
             \cup Starts(HwSettings({50}, {50}, {0}, {7}, {0}, {100}, {0},
                                    {0}),
                         {<<50, -50>>}),
   settings |-> HwSettings({50}, {50}, {0}, {7}, {0}, {0, 100}, {0, 1}, {0}),
   fs1 |-> BOOLEAN, fs2 |-> {FALSE},
   wobbled |-> {0}, dust |-> {0},
   maxMoves |-> MaxMoves]

InitToggle == InitWith(EnvToggle)

NextToggle ==
  \/ AudioCallbackControls(EnvToggle)
  \/ ProcessSample(EnvToggle)

SpecToggle == InitToggle /\ [][NextToggle]_vars

\* Toggle 3 moved: the effect stays bypassed; the player moves Toggle 3
\* between its three positions and turns K3 and K5, by less than
\* KNOB_TOUCH_THRESHOLD or by more.
EnvShift ==
  [start |-> Starts(HwSettings({50}, {50}, {0}, {7}, {0}, {0}, {0}, {0, 1}),
                    {<<50, -50>>}),
   settings |-> HwSettings({50}, {50}, {0, 50}, {7}, {0, 2, 60}, {0}, {0},
                           {0, 1, 2}),
   fs1 |-> {FALSE}, fs2 |-> {FALSE},
   wobbled |-> {0}, dust |-> {0},
   maxMoves |-> MaxMoves]

InitShift == InitWith(EnvShift)

NextShift ==
  \/ AudioCallbackControls(EnvShift)
  \/ ProcessSample(EnvShift)

SpecShift == InitShift /\ [][NextShift]_vars

\* Slice count raised and lowered: forward mode with 2 slices at power-up
\* and a steady input; the player switches the effect on and turns the
\* slice-count knob up to 4 slices and back down to 2, at any time.  No
\* rand() result is used in forward mode with the stutter knob at 0.  The
\* audio callback keeps being called: weak fairness of the sample loop.
EnvLowered ==
  [start |-> Starts(HwSettings({50}, {50}, {0}, {7}, {0}, {0}, {0}, {0}),
                    {<<50>>}),
   settings |-> HwSettings({50}, {50}, {0}, {7, 25}, {0}, {0}, {0}, {0}),
   fs1 |-> BOOLEAN, fs2 |-> {FALSE},
   wobbled |-> {0}, dust |-> {0},
   maxMoves |-> MaxMoves + 1]

InitLowered == InitWith(EnvLowered)

NextLowered ==
  \/ AudioCallbackControls(EnvLowered)
  \/ ProcessSample(EnvLowered)

SpecLowered ==
  InitLowered /\ [][NextLowered]_vars /\ WF_vars(ProcessSample(EnvLowered))

\* A single slice: the slice-count knob at 0 (1 active slice) from power-up,
\* in every mode, with the stutter knob at 0 or at its maximum and the
\* slice-length knob at its minimum or maximum; the input is steady or
\* alternating and never 0.  The player presses the footswitches at any
\* time.  The audio callback keeps being called: weak fairness of the sample
\* loop.
EnvSingle ==
  [start |-> Starts(HwSettings({50}, {50}, {0}, {0}, {0, 100}, {0, 100},
                               {0, 1, 2}, {0}),
                    {<<50>>, <<50, -50>>}),
   settings |-> {},
   fs1 |-> BOOLEAN, fs2 |-> BOOLEAN,
   wobbled |-> {0}, dust |-> {0},
   maxMoves |-> MaxMoves]

InitSingle == InitWith(EnvSingle)

NextSingle ==
  \/ AudioCallbackControls(EnvSingle)
  \/ ProcessSample(EnvSingle)

SpecSingle ==
  InitSingle /\ [][NextSingle]_vars /\ WF_vars(ProcessSample(EnvSingle))

\* The repeat-count bench: the two CalculateRepeatCount policies applied to
\* a stutter value and to the results of rand(), taken at both sides of
\* every threshold the policies compare with.
StutterValues == {0, 1, 24, 25, 49, 50, 74, 75, 100}
DrawsOf100 == {0, 39, 40, 69, 70, 89, 90, 99}
DrawsOf10000 ==
  {0, 999, 1000, 2999, 3000, 3999, 4000, 5999, 6000, 6999, 7000, 8999,
   9000, 9499, 9500, 9999}

DrawRepeatCount ==
  /\ ~draw.made
  /\ draw' = [draw EXCEPT
                !.made = TRUE,
                !.simplified = CalculateRepeatCount(draw.stutter, draw.r1,
                                                    draw.r2),
                !.binned = CalculateRepeatCountBinned(draw.stutter, draw.r)]
  /\ UNCHANGED <<storeVars, captureVars, playbackVars, controlVars,
                 slice_length_samples_smooth, lofiVars, out, envVars, ev,
                 passLog>>

InitRepeatDraw ==
  /\ InitEngine
  /\ hw = [k |-> [i \in 0..5 |-> 0], t1 |-> 0, t3 |-> 0]
  /\ sig = [wave |-> <<0>>, phase |-> 1]
  /\ moves = 0
  /\ running = FALSE
  /\ draw \in {[NoDraw EXCEPT !.stutter = s, !.r1 = r1, !.r2 = r2, !.r = r] :
                 s \in StutterValues, r1 \in DrawsOf100, r2 \in DrawsOf100,
                 r \in DrawsOf10000}

NextRepeatDraw == DrawRepeatCount

SpecRepeatDraw == InitRepeatDraw /\ [][NextRepeatDraw]_vars

\* The next-slice bench: the two GetNextSlice functions applied to a current
\* index inside [0, sliceCount), a mode, a shuffle amount and the results of
\* rand().
ShuffleValues == {0, 50, 100}
ShuffleDraws == {0, 4999, 5000, 9999}

NoNextSlice ==
  [made |-> FALSE, current |-> 0, count |-> 1, mode |-> 0, k6 |-> 0,
   r |-> 0, rSlice |-> 0, rDir |-> 0,
   ambien |-> [next |-> 0, rev |-> FALSE],
   flux |-> [next |-> 0, rev |-> FALSE, shuffled |-> FALSE]]

DrawNextSlice ==
  /\ ~draw.made
  /\ draw' = [draw EXCEPT
                !.made = TRUE,
                !.ambien = GetNextSlice(draw.current, draw.count, draw.mode,
                                        draw.rSlice, draw.rDir),
                !.flux = GetNextSliceFlux(draw.current, draw.count, draw.k6,
                                          draw.mode, draw.r, draw.rSlice,
                                          draw.rDir)]
  /\ UNCHANGED <<storeVars, captureVars, playbackVars, controlVars,
                 slice_length_samples_smooth, lofiVars, out, envVars, ev,
                 passLog>>

InitNextSlice ==
  /\ InitEngine
  /\ hw = [k |-> [i \in 0..5 |-> 0], t1 |-> 0, t3 |-> 0]
  /\ sig = [wave |-> <<0>>, phase |-> 1]
  /\ moves = 0
  /\ running = FALSE
  /\ draw \in {[NoNextSlice EXCEPT !.current = c, !.count = n, !.mode = m,
                                   !.k6 = k, !.r = r, !.rSlice = a,
                                   !.rDir = b] :
                 c \in Slices, n \in 1..MAX_SLICES, m \in 0..2,
                 k \in ShuffleValues, r \in ShuffleDraws,
                 a \in Slices, b \in Rand(2)}
  /\ draw.current < draw.count
  /\ draw.rSlice < draw.count

NextNextSlice == DrawNextSlice

SpecNextSlice == InitNextSlice /\ [][NextNextSlice]_vars

\* The next-slice bench after the slice count was lowered: the current index
\* is any index of the arena, at or above sliceCount included.
InitNextSliceLowered ==
  /\ InitEngine
  /\ hw = [k |-> [i \in 0..5 |-> 0], t1 |-> 0, t3 |-> 0]
  /\ sig = [wave |-> <<0>>, phase |-> 1]
  /\ moves = 0
  /\ running = FALSE
  /\ draw \in {[NoNextSlice EXCEPT !.current = c, !.count = n, !.mode = m,
                                   !.k6 = k, !.r = r, !.rSlice = a,
                                   !.rDir = b] :
                 c \in Slices, n \in 1..MAX_SLICES, m \in 0..2,
                 k \in ShuffleValues, r \in ShuffleDraws,
                 a \in Slices, b \in Rand(2)}
  /\ draw.rSlice < draw.count

NextNextSliceLowered == DrawNextSlice

SpecNextSliceLowered == InitNextSliceLowered /\ [][NextNextSliceLowered]_vars

\* The repeat-count tally: for one stutter value the binned policy applied
\* to each of the 10000 results of rand() % 10000 in turn, r being the next
\* one; binned is what the last call returned and tally[v] how many calls
\* returned v.
NoTally ==
  [made |-> FALSE, stutter |-> 0, r |-> 0, binned |-> 0,
   tally |-> [v \in 1..8 |-> 0]]

TallyRepeatCount ==
  /\ draw.r < 10000
  /\ LET v == CalculateRepeatCountBinned(draw.stutter, draw.r)
     IN  draw' = [draw EXCEPT
                    !.made = TRUE,
                    !.r = draw.r + 1,
                    !.binned = v,
                    !.tally = IF v \in 1..8
                              THEN [draw.tally EXCEPT ![v] = draw.tally[v] + 1]
                              ELSE draw.tally]
  /\ UNCHANGED <<storeVars, captureVars, playbackVars, controlVars,
                 slice_length_samples_smooth, lofiVars, out, envVars, ev,
                 passLog>>

InitRepeatTally ==
  /\ InitEngine
  /\ hw = [k |-> [i \in 0..5 |-> 0], t1 |-> 0, t3 |-> 0]
  /\ sig = [wave |-> <<0>>, phase |-> 1]
  /\ moves = 0
  /\ running = FALSE
  /\ draw \in {[NoTally EXCEPT !.stutter = s] : s \in StutterValues}

NextRepeatTally == TallyRepeatCount

SpecRepeatTally == InitRepeatTally /\ [][NextRepeatTally]_vars

\* The slice-count bench: ProcessParameters applied to a position of the
\* slice-count control.
NoSliceCount == [made |-> FALSE, k4 |-> 0, count |-> 0]

MapSliceCount ==
  /\ ~draw.made
  /\ draw' = [draw EXCEPT !.made = TRUE, !.count = SliceCountOf(draw.k4)]
  /\ UNCHANGED <<storeVars, captureVars, playbackVars, controlVars,
                 slice_length_samples_smooth, lofiVars, out, envVars, ev,
                 passLog>>

InitSliceCount ==
  /\ InitEngine
  /\ hw = [k |-> [i \in 0..5 |-> 0], t1 |-> 0, t3 |-> 0]
  /\ sig = [wave |-> <<0>>, phase |-> 1]
  /\ moves = 0
  /\ running = FALSE
  /\ draw \in {[NoSliceCount EXCEPT !.k4 = k] : k \in Knob}

NextSliceCount == MapSliceCount

SpecSliceCount == InitSliceCount /\ [][NextSliceCount]_vars

\* The repeat-count comparison: the binned policy applied, for every
\* stutter value of StutterValues at once, to each of the 10000 results of
\* rand() % 10000 in turn; tallies[s][v] is how many calls at stutter s
\* returned v.
NoTallies ==
  [made |-> FALSE, r |-> 0,
   tallies |-> [s \in StutterValues |-> [v \in 1..8 |-> 0]]]

TallyEveryStutter ==
  /\ draw.r < 10000
  /\ draw' = [draw EXCEPT
                !.made = TRUE,
                !.r = draw.r + 1,
                !.tallies =
                   [s \in StutterValues |->
                      LET v == CalculateRepeatCountBinned(s, draw.r)
                      IN  IF v \in 1..8
                          THEN [draw.tallies[s] EXCEPT
                                  ![v] = draw.tallies[s][v] + 1]
                          ELSE draw.tallies[s]]]
  /\ UNCHANGED <<storeVars, captureVars, playbackVars, controlVars,
                 slice_length_samples_smooth, lofiVars, out, envVars, ev,
                 passLog>>

InitRepeatSkew ==
  /\ InitEngine
  /\ hw = [k |-> [i \in 0..5 |-> 0], t1 |-> 0, t3 |-> 0]
  /\ sig = [wave |-> <<0>>, phase |-> 1]
  /\ moves = 0
  /\ running = FALSE
  /\ draw = NoTallies

NextRepeatSkew == TallyEveryStutter

SpecRepeatSkew == InitRepeatSkew /\ [][NextRepeatSkew]_vars

\* ------------------------------------------------------ reverse delay line
\* DelayLineReverse<T, max_size> (delayline_reverse.h), scaled: max_size and
\* the crossfade time fadetime_ (2300 samples) in samples of the model.
DL_MAX_SIZE == 6
FADE_TIME == 2

\* Reset(): delay_ = 2400, the crossfade time and 100 samples
DL_RESET_DELAY == FADE_TIME + 1

\* fade_pos_ is kept in steps of 1.0f / fadetime_.  The float sum of
\* fadetime_ such steps is still below 1.0f (2300 additions of 1.0f / 2300
\* give 0.99997), so fade_pos_ >= 1.0f is first true after fadetime_ + 1
\* additions, and fade_pos_ <= 0.0f after as many subtractions from 1.0f.
FADE_STEPS == FADE_TIME + 1

DelayValues == 0..(DL_MAX_SIZE + 1)
DelaySamples == {50}

\* head_diff_ > (delay_ - fadetime_ - 1) in size_t arithmetic of 32 bits:
\* a negative difference wraps to difference + 2^32 (2^32 = 65536 * 65536,
\* compared in two halves of 16 bits)
PastFadeStart(head_diff, delay) ==
  LET difference == delay - FADE_TIME - 1
      above == head_diff - difference
  IN  IF difference >= 0
      THEN head_diff > difference
      ELSE \/ above \div 65536 > 65536
           \/ above \div 65536 = 65536 /\ above % 65536 > 0

\* the delay line after Reset(), and what the bench has seen: wrote, the
\* last call was Write; started, that Write started a crossfade; sinceStart,
\* the Writes since the last start of a crossfade or since Init (capped);
\* hadStart, a crossfade has started since Init; gap, the Writes between
\* the last two starts; undefined, a Write has divided by 0
NoDelayLine ==
  [delay_ |-> DL_RESET_DELAY, frac_ |-> 0,
   line_ |-> [i \in 0..(DL_MAX_SIZE - 1) |-> 0],
   write_ptr_ |-> 0, read_ptr1_ |-> 0, read_ptr2_ |-> 0, head_diff_ |-> 0,
   playing_head_ |-> FALSE, fade_pos_ |-> 0, fading_ |-> FALSE,
   wrote |-> FALSE, started |-> FALSE, sinceStart |-> 0, hadStart |-> FALSE,
   gap |-> 0, undefined |-> FALSE]

\* SetDelay(size_t delay)
DelayLineSetDelay(d, delay) ==
  [d EXCEPT !.frac_ = 0,
            !.delay_ = IF delay < DL_MAX_SIZE THEN delay ELSE DL_MAX_SIZE - 1,
            !.wrote = FALSE, !.started = FALSE, !.sinceStart = 0,
            !.hadStart = FALSE, !.gap = 0]

\* Write(sample): every outcome.  (head_diff_ + 1) % delay_ with delay_ = 0
\* is a division by 0, undefined behaviour: head_diff_ can become anything.
DelayLineWrite(d, sample) ==
  LET write_ptr == (d.write_ptr_ + 1) % DL_MAX_SIZE
      read_ptr1 == (d.read_ptr1_ - 1 + DL_MAX_SIZE) % DL_MAX_SIZE
      read_ptr2 == (d.read_ptr2_ - 1 + DL_MAX_SIZE) % DL_MAX_SIZE
      jumped == (write_ptr - 1 + DL_MAX_SIZE) % DL_MAX_SIZE
      since == IF d.sinceStart < 2 * DL_MAX_SIZE THEN d.sinceStart + 1
               ELSE d.sinceStart
      outcome(head_diff) ==
        LET start == PastFadeStart(head_diff, d.delay_) /\ ~d.fading_
            fading == d.fading_ \/ start
            up == d.fade_pos_ + 1
            down == d.fade_pos_ - 1
            doneUp == fading /\ ~d.playing_head_ /\ up >= FADE_STEPS
            doneDown == fading /\ d.playing_head_ /\ down <= 0
        IN  [delay_ |-> d.delay_, frac_ |-> d.frac_,
             line_ |-> [d.line_ EXCEPT ![d.write_ptr_] = sample],
             write_ptr_ |-> write_ptr,
             read_ptr1_ |-> IF start /\ d.playing_head_ THEN jumped
                            ELSE read_ptr1,
             read_ptr2_ |-> IF start /\ ~d.playing_head_ THEN jumped
                            ELSE read_ptr2,
             head_diff_ |-> head_diff,
             playing_head_ |-> IF doneUp THEN TRUE
                               ELSE IF doneDown THEN FALSE
                               ELSE d.playing_head_,
             fade_pos_ |-> IF ~fading THEN d.fade_pos_
                           ELSE IF ~d.playing_head_
                           THEN (IF doneUp THEN FADE_STEPS ELSE up)
                           ELSE (IF doneDown THEN 0 ELSE down),
             fading_ |-> fading /\ ~doneUp /\ ~doneDown,
             wrote |-> TRUE, started |-> start,
             sinceStart |-> IF start THEN 0 ELSE since,
             hadStart |-> d.hadStart \/ start,
             gap |-> IF start /\ d.hadStart THEN since ELSE d.gap,
             undefined |-> d.undefined \/ d.delay_ = 0]
  IN  {outcome(h) : h \in IF d.delay_ = 0 THEN 0..(DL_MAX_SIZE - 1)
                          ELSE {(d.head_diff_ + 1) % d.delay_}}

\* The delay-line bench: Init() and SetDelay with any accepted value, at any
\* time, and Writes from then on.
WriteDelayLine ==
  /\ draw' \in UNION {DelayLineWrite(draw, x) : x \in DelaySamples}
  /\ UNCHANGED <<storeVars, captureVars, playbackVars, controlVars,
                 slice_length_samples_smooth, lofiVars, out, envVars, ev,
                 passLog>>

SetDelayOfDelayLine ==
  /\ \E delay \in DelayValues : draw' = DelayLineSetDelay(NoDelayLine, delay)
  /\ UNCHANGED <<storeVars, captureVars, playbackVars, controlVars,
                 slice_length_samples_smooth, lofiVars, out, envVars, ev,
                 passLog>>

InitDelayLine ==
  /\ InitEngine
  /\ hw = [k |-> [i \in 0..5 |-> 0], t1 |-> 0, t3 |-> 0]
  /\ sig = [wave |-> <<0>>, phase |-> 1]
  /\ moves = 0
  /\ running = FALSE
  /\ draw = NoDelayLine

NextDelayLine ==
  \/ WriteDelayLine
  \/ SetDelayOfDelayLine

SpecDelayLine == InitDelayLine /\ [][NextDelayLine]_vars

\* ------------------------------------------------------------- properties
\* the last step was one pass of the sample loop with the effect switched on
ActiveTick == ev.kind = "sample" /\ ~ev.bypassed

\* C1: for every slice index, in every reachable state (any input, any
\* slice length, slice count and mode, the slice-length control at its
\* maximum included), 0 <= sliceLengths[i] <= MAX_SLICE_LENGTH.
C1_RealizedLengthBounded ==
  \A i \in Slices :
    sliceLengths[i] >= 0 /\ sliceLengths[i] <= MAX_SLICE_LENGTH

\* the slice-length knob is at its maximum and a slice of the full length
\* MAX_SLICE_LENGTH was finalized
C1_FullLengthSlice ==
  /\ knob_slice_length = 100
  /\ slice_length_samples = MAX_SLICE_LENGTH
  /\ \E i \in Slices : sliceLengths[i] = MAX_SLICE_LENGTH

\* C2: whenever PlaybackSlice services a read (returns a sample taken from a
\* slice buffer), the playback slice index differs from the capture slice
\* index, for every slice count, mode and stutter value.
C2_ReadAvoidsCaptureSlice ==
  (ActiveTick /\ ev.pb.served) => ev.pb.readSlice # ev.pb.capAtRead

C4_AccessInsideArena ==
  ActiveTick =>
    /\ ev.cap.wrote =>
         ev.cap.writeSlice \in Slices /\ ev.cap.writeOffset \in Offsets
    /\ ev.pb.served =>
         ev.pb.readSlice \in Slices /\ ev.pb.readOffset \in Offsets

\* a sample was written to the last cell of a slice while a read was served
C4_LastCellWritten ==
  /\ ActiveTick /\ ev.pb.served
  /\ ev.cap.wrote /\ ev.cap.writeOffset = MAX_SLICE_LENGTH - 1

\* C5: a slice is finalized only during the zero-crossing search, at the
\* first captured sample at which a zero-crossing is detected, the search
\* counter reaches MAX_ZERO_SEARCH or the write offset reaches capacity;
\* so a finalize comes at least 1 and at most MAX_ZERO_SEARCH captured
\* samples after the search started.
C5_FinalizeInSearch ==
  /\ (ActiveTick /\ ev.cap.wrote) =>
       /\ ev.cap.finalized <=>
            /\ ev.cap.wasWaiting
            /\ \/ ev.cap.zeroCrossing
               \/ ev.cap.searchCount >= MAX_ZERO_SEARCH
               \/ ev.cap.finalLen >= MAX_SLICE_LENGTH - 1
       /\ ev.cap.finalized =>
            /\ ev.cap.searchCount >= 1
            /\ ev.cap.searchCount <= MAX_ZERO_SEARCH
  /\ waitingForZeroCrossing => zeroSearchCount < MAX_ZERO_SEARCH

\* a search ended by its timeout, below capacity and without a zero-crossing
C5_SearchTimedOut ==
  /\ ActiveTick /\ ev.cap.finalized
  /\ ~ev.cap.zeroCrossing
  /\ ev.cap.searchCount = MAX_ZERO_SEARCH
  /\ ev.cap.finalLen < MAX_SLICE_LENGTH - 1

\* C7: while frozen and not bypassed playback keeps running: a served tick
\* advances the playback position by one, and at the end of a pass the
\* slice is repeated (repeat counter + 1) or left (repeat counter 0) by the
\* same comparison with the target repeat count as when not frozen.
C7_PlaybackRunsWhileFrozen ==
  (ActiveTick /\ ev.frozen /\ ev.pb.served) =>
    IF ~ev.pb.passDone
    THEN /\ playbackPosition = ev.pb.posAtCheck + 1
         /\ currentPlaybackSlice = ev.pb.sliceAtCheck
         /\ repeatCount = ev.pb.repAtCheck
    ELSE /\ playbackPosition = 0
         /\ IF ev.pb.repAtCheck + 1 >= ev.pb.trAtCheck
            THEN /\ repeatCount = 0
                 /\ \/ currentPlaybackSlice = ev.pb.sliceAtCheck
                    \/ sliceLengths[currentPlaybackSlice] > 0
            ELSE /\ repeatCount = ev.pb.repAtCheck + 1
                 /\ currentPlaybackSlice = ev.pb.sliceAtCheck

\* a pass ended while frozen and playback moved on to another slice
C7_FrozenAdvance ==
  /\ ActiveTick /\ ev.frozen /\ ev.pb.served /\ ev.pb.passDone
  /\ currentPlaybackSlice # ev.pb.sliceAtCheck

\* C8 as stated: when after the collision check the playback slice is empty,
\* PlaybackSlice returns 0 without a read and the tick leaves the playback
\* position and the repeat counter as they were before the tick.
C8_EmptySliceLeavesCursor ==
  (ActiveTick /\ ev.pb.entered /\ ev.pb.lenAtCheck = 0) =>
    /\ ev.wet = 0 /\ ~ev.pb.served
    /\ playbackPosition = ev.pb.posIn
    /\ repeatCount = ev.pb.repIn

\* C8: when after the collision check the playback slice is empty,
\* PlaybackSlice returns 0 without a read and leaves the playback slice,
\* position and repeat counter as the collision check left them (position 0
\* and repeat counter 0 if the check forced an advance).
C8_EmptySliceSilent ==
  (ActiveTick /\ ev.pb.entered /\ ev.pb.lenAtCheck = 0) =>
    /\ ev.wet = 0 /\ ~ev.pb.served
    /\ currentPlaybackSlice = ev.pb.sliceAtCheck
    /\ playbackPosition = ev.pb.posAtCheck
    /\ repeatCount = ev.pb.repAtCheck
    /\ ev.pb.collided => (ev.pb.posAtCheck = 0 /\ ev.pb.repAtCheck = 0)

\* a forced advance landed on an empty slice and the tick was silent
C8_SilentAfterCollision ==
  /\ ActiveTick /\ ev.pb.entered /\ ev.pb.lenAtCheck = 0
  /\ ev.pb.collided /\ ev.pb.silentEmpty

\* C9: a collision never blocks capture: every tick that is neither bypassed
\* nor frozen writes one sample at the capture cursor, whatever playback
\* did, and a collision changes only the playback cursor (forced advance
\* before the read, position 0, repeat counter 0).
C9_CollisionNeverBlocksCapture ==
  ActiveTick =>
    /\ ~ev.frozen =>
         /\ ev.cap.wrote
         /\ ev.cap.writeSlice = ev.pb.capAtRead
         /\ IF ev.cap.finalized
            THEN /\ sliceLengths[ev.cap.writeSlice] = ev.cap.writeOffset + 1
                 /\ capturePosition = 0
            ELSE /\ currentCaptureSlice = ev.cap.writeSlice
                 /\ capturePosition = ev.cap.writeOffset + 1
                 /\ previousCaptureSample = ev.cap.written
    /\ ev.pb.collided => (ev.pb.posAtCheck = 0 /\ ev.pb.repAtCheck = 0)

\* a tick with a collision on which the read was served from the slice the
\* forced advance chose and the sample was captured
C9_CollisionAndWrite ==
  /\ ActiveTick /\ ~ev.frozen
  /\ ev.pb.collided /\ ev.pb.served /\ ev.cap.wrote

\* C6 as stated: with slice count 4, forward mode, stutter 0 and slices of
\* equal length, the completed passes are of slices 0,1,2,3,0,1,2,3,...
\* from the first pass after the first finalize on.
C6_PassesInIndexOrder ==
  /\ passLog.n = 1 => passLog.last = 0
  /\ passLog.n >= 2 => passLog.last = (passLog.prev + 1) % active_slice_count

\* C6: with slice count 4, forward mode, stutter 0 and slices of equal
\* length, the completed passes are of slices 0,0,1,2,3,0,1,2,3,...: the
\* first slice is played twice (the next slice is still being captured when
\* its first pass ends), and from then on every pass is of the slice after
\* the one before, in index order, each slice once per cycle.
C6_PassesInOrderAfterRepeat ==
  /\ passLog.n = 1 => passLog.last = 0
  /\ passLog.n = 2 => (passLog.prev = 0 /\ passLog.last = 0)
  /\ passLog.n >= 3 =>
       passLog.last = (passLog.prev + 1) % active_slice_count

\* all four slices are finalized with one length and playback has wrapped
\* from slice 3 to slice 0
C6_CycleWrapped ==
  /\ active_slice_count = 4 /\ toggle_mode = 0 /\ knob_stutter = 0
  /\ \A i \in 0..3 : sliceLengths[i] = sliceLengths[0] /\ sliceLengths[i] > 0
  /\ passLog.n = 3 /\ passLog.prev = 3 /\ passLog.last = 0

\* C10: with the stutter control at 0 every repeat-count draw returns 1,
\* in the binned policy of flux_main.cpp and in the policy of Ambien Flux.
C10_ZeroStutterDrawsOne ==
  (draw.made /\ draw.stutter = 0) =>
    (draw.simplified = 1 /\ draw.binned = 1)

\* a draw at stutter 0 with rand() results that give 2 and more at the
\* next stutter values
C10_ZeroStutterDraw ==
  /\ draw.made /\ draw.stutter = 0
  /\ draw.r1 = 0 /\ draw.r2 = 0 /\ draw.r = 9999
  /\ draw.simplified = 1 /\ draw.binned = 1

\* C11: at every serviced read the fade length in effect for the envelope
\* is at most one third of the realized length of the slice being read.
C11_FadeWithinThird ==
  (ActiveTick /\ ev.pb.served) => 3 * ev.pb.envDen <= ev.pb.readLen

\* C12: at every serviced read the crossfade envelope multiplier
\* envNum / envDen lies in [0,1].
C12_EnvelopeInUnitRange ==
  (ActiveTick /\ ev.pb.served) =>
    /\ ev.pb.envDen > 0
    /\ ev.pb.envNum >= 0
    /\ ev.pb.envNum <= ev.pb.envDen

\* a read in the fade-out of a slice, past the fade-in, with the envelope
\* strictly between 0 and 1
C12_FadeOutRead ==
  /\ ActiveTick /\ ev.pb.served
  /\ ev.pb.readPos > ev.pb.envDen
  /\ ev.pb.readPos >= ev.pb.readLen - ev.pb.envDen
  /\ ev.pb.envNum > 0 /\ ev.pb.envNum < ev.pb.envDen

\* C14: in random-direction mode (mode 2) Ambien Flux GetNextSlice selects
\* the next slice by sequential increment, (current + 1) mod count; only the
\* read direction is a coin flip.
C14_RandomModeSequential ==
  (draw.made /\ draw.mode = 2) =>
    draw.ambien.next = (draw.current + 1) % draw.count

\* C15: from a current index inside [0, count), without shuffling, forward
\* mode selects (current + 1) mod count with the direction flag forward, and
\* reverse mode selects (current - 1) mod count with the flag backward, in
\* both GetNextSlice functions.
C15_SequentialSelection ==
  LET up == (draw.current + 1) % draw.count
      down == (draw.current - 1 + draw.count) % draw.count
  IN  /\ (draw.made /\ draw.mode = 0) =>
           /\ draw.ambien = [next |-> up, rev |-> FALSE]
           /\ ~draw.flux.shuffled => draw.flux.next = up /\ ~draw.flux.rev
      /\ (draw.made /\ draw.mode = 1) =>
           /\ draw.ambien = [next |-> down, rev |-> TRUE]
           /\ ~draw.flux.shuffled => draw.flux.next = down /\ draw.flux.rev

\* reverse mode wrapped from the first slice to the last one of 3 or more,
\* with shuffling possible but not drawn
C15_ReverseWrap ==
  /\ draw.made /\ draw.mode = 1
  /\ draw.current = 0 /\ draw.count >= 3
  /\ draw.k6 > 0 /\ ~draw.flux.shuffled
  /\ draw.flux.next = draw.count - 1
  /\ draw.ambien.next = draw.count - 1

\* C13: in reverse mode (Toggle 1 MIDDLE, mode 1) each finalize moves the
\* capture index backward: the new capture index is (old - 1) mod the
\* active slice count.
C13_ReverseCaptureBackward ==
  (ActiveTick /\ ev.cap.finalized /\ toggle_mode = 1) =>
    currentCaptureSlice =
      (ev.cap.writeSlice - 1 + active_slice_count) % active_slice_count

\* C17: for every input inside [-1,1] and every feedback, mix and master
\* level setting, every output sample and every stored sample stays inside
\* [-1,1] (100 hundredths of full scale).
C17_SamplesInRange ==
  /\ Abs(out[1]) <= 100 /\ Abs(out[2]) <= 100
  /\ \A s \in Slices : \A o \in Offsets : Abs(sliceBuffers[s][o]) <= 100

\* C18: with the rate-reduction control at exactly 0 CustomBitCrush returns
\* its input and leaves the hold sample and the hold counter untouched, so
\* that the sample handed to capture is input + wet * feedback; with wobble
\* and noise at 0 the output is the mixed sample times the master level.
C18_LofiZeroIsBypass ==
  [][(running /\ ~bypass /\ UNCHANGED controlVars) =>
       /\ lofi_bitcrush = 0 =>
            /\ \A x \in {-100, 0, 100} :
                 \A c \in CustomBitCrush(x, lofi_bitcrush) :
                   /\ c.y = x
                   /\ c.hold = bitcrush_hold_sample
                   /\ c.counter = bitcrush_sample_counter
            /\ UNCHANGED <<bitcrush_hold_sample, bitcrush_sample_counter>>
            /\ ev'.cap.wrote =>
                 ev'.cap.written =
                   ev'.input + TruncDiv(ev'.wet * feedback_amount, 100)
       /\ (lofi_wobble = 0 /\ lofi_noise = 0) =>
            out'[1] =
              TruncDiv(TruncDiv(ev'.input * (100 - knob_mix)
                                  + ev'.wet * knob_mix, 100) * master_level,
                       100)]_vars

\* with every lo-fi control at 0, a sample with feedback added was handed to
\* capture and the mix of a dry and a wet sample went to the output
C18_FeedbackCaptured ==
  /\ ActiveTick
  /\ lofi_bitcrush = 0 /\ lofi_wobble = 0 /\ lofi_noise = 0
  /\ feedback_amount > 0 /\ knob_mix > 1 /\ ev.wet # 0
  /\ ev.cap.wrote
  /\ ev.cap.written = ev.input + TruncDiv(ev.wet * feedback_amount, 100)
  /\ ev.cap.written # ev.input
  /\ bitcrush_sample_counter = 0

\* C16: while frozen the feedback control remains active: with the effect
\* on and a nonzero wet sample about to be played, a different feedback
\* amount gives a different wet output or different slice contents.
C16_FeedbackActiveWhileFrozen ==
  (/\ running /\ ~bypass /\ is_frozen
   /\ \E played \in PlaybackSlice : played.wet # 0) =>
    FeedbackOutcomes(0) # FeedbackOutcomes(100)

\* C19: under the binned policy every draw returns a value in {1,2,4,8}
\* for every stutter value, and at stutter 1.0 the 10000 equally likely
\* draw values map to 1, 2, 4, 8 with the weights 10%, 30%, 30%, 30%.
C19_BinnedWeights ==
  /\ draw.made => draw.binned \in {1, 2, 4, 8}
  /\ (draw.stutter = 100 /\ draw.r = 10000) =>
       /\ draw.tally[1] * 100 = 10 * 10000
       /\ draw.tally[2] * 100 = 30 * 10000
       /\ draw.tally[4] * 100 = 30 * 10000
       /\ draw.tally[8] * 100 = 30 * 10000

\* all 10000 draw values were taken at stutter 1.0 and each of the four
\* repeat counts was returned
C19_AllDrawsTallied ==
  /\ draw.made /\ draw.stutter = 100 /\ draw.r = 10000
  /\ draw.tally[1] > 0 /\ draw.tally[2] > 0
  /\ draw.tally[4] > 0 /\ draw.tally[8] > 0
  /\ draw.tally[1] + draw.tally[2] + draw.tally[4] + draw.tally[8] = 10000

\* C20: while bypassed every output sample equals the input sample and no
\* engine state changes (slice buffers, realized lengths, capture cursor,
\* playback cursor, repeat counters); in every state the two output
\* channels carry the identical sample.
C20_BypassIsTransparent ==
  [][/\ out'[1] = out'[2]
     /\ bypass => UNCHANGED <<storeVars, captureVars, playbackVars>>
     /\ (running /\ bypass /\ UNCHANGED controlVars) =>
          /\ ev'.kind = "sample" /\ ev'.bypassed
          /\ out' = <<sig.wave[sig.phase], sig.wave[sig.phase]>>]_vars

\* a nonzero sample passed through while bypassed, in the middle of a
\* capture and with slices to play
C20_BypassedMidCapture ==
  /\ ev.kind = "sample" /\ ev.bypassed /\ bypass
  /\ hasContent /\ capturePosition > 0
  /\ ev.input # 0
  /\ out = <<ev.input, ev.input>>

\* C21: a finalize not caused by the timeout or the capacity limit happens
\* only at a sample whose sign differs from the previous captured sample and
\* only if some sample captured since the search began had a magnitude above
\* 1% of full scale; a search over samples of magnitude at most 1% ends only
\* by the timeout or the capacity limit.
C21_ZeroCrossingNeedsSignal ==
  (ActiveTick /\ ev.cap.finalized) =>
    LET s == ev.cap.writeSlice
        last == ev.cap.writeOffset
        first == last - ev.cap.searchCount + 1
        previous == sliceBuffers[s][last - 1]
        current == sliceBuffers[s][last]
    IN  \/ ev.cap.searchCount >= MAX_ZERO_SEARCH
        \/ ev.cap.finalLen >= MAX_SLICE_LENGTH - 1
        \/ /\ first >= 1
           /\ current = ev.cap.written
           /\ (previous > 0 /\ current <= 0) \/ (previous < 0 /\ current >= 0)
           /\ \E o \in first..last : Abs(sliceBuffers[s][o]) > 1

\* a search over samples of magnitude 1% that saw a sign flip and ended by
\* the timeout
C21_QuietSearchTimedOut ==
  /\ ActiveTick /\ ev.cap.finalized
  /\ ev.cap.searchCount >= MAX_ZERO_SEARCH
  /\ ev.cap.finalLen < MAX_SLICE_LENGTH - 1
  /\ ev.cap.written = -1
  /\ sliceBuffers[ev.cap.writeSlice][ev.cap.writeOffset - 1] = 1
  /\ \A o \in 0..ev.cap.writeOffset :
       Abs(sliceBuffers[ev.cap.writeSlice][o]) <= 1

\* C22: on every finalize the realized length of the slice just captured is
\* the number of samples written to it during this capture (at least 1),
\* the write offset becomes 0, the search flag, the search counter, the
\* hysteresis flag and the previous-sample memory are cleared, and the new
\* capture index lies in [0, active slice count).
C22_FinalizeResetsCapture ==
  /\ (ActiveTick /\ ev.cap.wrote /\ ~ev.cap.finalized) =>
       capturePosition = ev.cap.writeOffset + 1
  /\ (ActiveTick /\ ev.cap.finalized) =>
       /\ ev.cap.wrote
       /\ sliceLengths[ev.cap.writeSlice] = ev.cap.writeOffset + 1
       /\ sliceLengths[ev.cap.writeSlice] >= 1
       /\ capturePosition = 0
       /\ ~waitingForZeroCrossing
       /\ zeroSearchCount = 0
       /\ ~hasLeftZero
       /\ previousCaptureSample = 0
       /\ currentCaptureSlice >= 0
       /\ currentCaptureSlice < active_slice_count

\* a finalize on a zero-crossing, of a slice of 2 or more samples ending in
\* a nonzero sample, with the capture index moved on
C22_FinalizedOnCrossing ==
  /\ ActiveTick /\ ev.cap.finalized /\ ev.cap.zeroCrossing
  /\ ev.cap.written # 0
  /\ sliceLengths[ev.cap.writeSlice] >= 2
  /\ currentCaptureSlice # ev.cap.writeSlice
  /\ capturePosition = 0 /\ previousCaptureSample = 0

\* C23: at the end of a pass on which the repeat target is reached the
\* sequencer moves only to a slice of realized length greater than 0, the
\* candidate of the policy with the capture slice skipped once; if the
\* candidate is empty the playback cursor stays on the current slice at
\* position 0.
C23_AdvanceOnlyToContent ==
  (/\ ActiveTick /\ ev.pb.served /\ ev.pb.passDone
   /\ ev.pb.repAtCheck + 1 >= ev.pb.trAtCheck) =>
    LET n1 == GetNextSlice(ev.pb.readSlice, active_slice_count, toggle_mode,
                           0, 0).next
        cand == IF n1 = ev.pb.capAtRead
                THEN GetNextSlice(n1, active_slice_count, toggle_mode,
                                  0, 0).next
                ELSE n1
        refilled == ev.cap.finalized /\ ev.cap.writeSlice = cand
    IN  /\ playbackPosition = 0
        /\ repeatCount = 0
        /\ currentPlaybackSlice # ev.pb.readSlice =>
             sliceLengths[currentPlaybackSlice] > 0
        /\ (toggle_mode # 2 /\ ~refilled) =>
             currentPlaybackSlice =
               IF sliceLengths[cand] > 0 THEN cand ELSE ev.pb.readSlice

\* with 3 slices the pass over slice 0 ended while slice 1 was captured and
\* slice 2 was empty: the cursor stayed on slice 0
C23_StayedOnSlice ==
  /\ ActiveTick /\ ev.pb.served /\ ev.pb.passDone
  /\ ev.pb.repAtCheck + 1 >= ev.pb.trAtCheck
  /\ active_slice_count = 3 /\ toggle_mode = 0
  /\ ev.pb.readSlice = 0 /\ ev.pb.capAtRead = 1
  /\ sliceLengths[2] = 0
  /\ currentPlaybackSlice = 0 /\ playbackPosition = 0

\* C24: whenever the playback slice index changes, by the first finalize,
\* by the advance at the end of a pass or by the forced advance of a
\* collision, the playback position is 0 right after the change: a read
\* served after a forced advance is at position 0.
C24_SliceEnteredAtStart ==
  ActiveTick =>
    /\ ev.pb.collided =>
         /\ ev.pb.posAtCheck = 0
         /\ ev.pb.served => ev.pb.readPos = 0
    /\ (ev.pb.entered /\ currentPlaybackSlice # ev.pb.sliceAtCheck) =>
         playbackPosition = 0
    /\ (~ev.pb.entered /\ hasContent) =>
         /\ ev.cap.finalized
         /\ currentPlaybackSlice = ev.cap.writeSlice
         /\ playbackPosition = 0

\* a collision in the middle of a pass moved the cursor to another slice,
\* which was read from position 0
C24_ForcedAdvanceMidPass ==
  /\ ActiveTick /\ ev.pb.collided /\ ev.pb.served
  /\ ev.pb.posIn > 0
  /\ ev.pb.readSlice # ev.pb.capAtRead
  /\ ev.pb.readPos = 0

\* C25: at every serviced read the fade length used for the envelope is
\* the value computed from the current realized length of the slice being
\* read, never a value cached from another slice or from an earlier
\* realized length of the same slice.
C25_FadeLengthCurrent ==
  (ActiveTick /\ ev.pb.served) => ev.pb.envDen = FadeLengthOf(ev.pb.readLen)

\* C26: within one uninterrupted pass over a slice of realized length L the
\* read offsets are 0, 1, ..., L-1 in forward direction and L-1, ..., 0 in
\* reverse direction (offset = L - 1 - position): a pass starts at position
\* 0, every read is on the same slice in the same direction as the one
\* before and one offset further, and the pass ends with the read of
\* offset L - 1 (forward) or 0 (reverse).
C26_PassReadsEveryOffset ==
  [][(/\ running /\ ~bypass /\ UNCHANGED controlVars
      /\ ev'.pb.served) =>
       /\ ev'.pb.readPos >= 0 /\ ev'.pb.readPos < ev'.pb.readLen
       /\ ev'.pb.readOffset = IF ev'.pb.readRev
                              THEN ev'.pb.readLen - 1 - ev'.pb.readPos
                              ELSE ev'.pb.readPos
       /\ ev'.pb.passDone <=> (ev'.pb.readPos = ev'.pb.readLen - 1)
       /\ (ActiveTick /\ ev.pb.served /\ ~ev'.pb.collided) =>
            IF ev.pb.passDone
            THEN ev'.pb.readPos = 0
            ELSE /\ ev'.pb.readSlice = ev.pb.readSlice
                 /\ ev'.pb.readRev = ev.pb.readRev
                 /\ ev'.pb.readOffset = IF ev.pb.readRev
                                        THEN ev.pb.readOffset - 1
                                        ELSE ev.pb.readOffset + 1]_vars

\* C27: before the first finalize the wet signal is exactly 0 and the
\* playback step changes no state (the playback cursor is as main() left
\* it); the first finalize places the playback cursor on the slice just
\* finalized, at position 0 with repeat counter 0 and with the direction the
\* active mode dictates.
C27_PlaybackStartsAtFirstFinalize ==
  /\ ~hasContent =>
       /\ currentPlaybackSlice = 0 /\ playbackPosition = 0
       /\ repeatCount = 0 /\ targetRepeats = 1
       /\ ~playbackReverse
       /\ lastPlayedSlice = -1 /\ fadeLength = 0
       /\ \A s \in Slices : sliceLengths[s] = 0
  /\ (ActiveTick /\ ~ev.pb.entered) =>
       /\ ev.wet = 0 /\ ~ev.pb.served
       /\ hasContent <=> ev.cap.finalized
       /\ hasContent =>
            /\ currentPlaybackSlice = ev.cap.writeSlice
            /\ playbackPosition = 0
            /\ repeatCount = 0
            /\ toggle_mode = 0 => ~playbackReverse
            /\ toggle_mode = 1 => playbackReverse

\* the first finalize in reverse mode, after ticks that played nothing
C27_FirstFinalizeReverse ==
  /\ ActiveTick /\ ~ev.pb.entered /\ hasContent /\ ev.cap.finalized
  /\ toggle_mode = 1 /\ playbackReverse
  /\ ev.cap.writeOffset >= 1
  /\ ev.input # 0 /\ ev.wet = 0
  /\ currentPlaybackSlice = ev.cap.writeSlice

\* C28: at every serviced read the read direction is the one the mode
\* active at that tick dictates, forward in forward mode and backward in
\* reverse mode, also when Toggle 1 was moved between two passes.
C28_DirectionFollowsMode ==
  [][(/\ running /\ ~bypass /\ UNCHANGED controlVars
      /\ ev'.pb.served) =>
       /\ toggle_mode = 0 => ~ev'.pb.readRev
       /\ toggle_mode = 1 => ev'.pb.readRev]_vars

\* C29: in flux_main.cpp GetNextSlice a shuffle draw not below the stutter
\* value yields the neighbour the mode determines, a draw below it yields
\* the index drawn in [0, count); with stutter 0 the result is always the
\* neighbour, and in every case the result lies in [0, count).
C29_ShuffleDecision ==
  draw.made =>
    LET neighbour == IF draw.mode = 1
                     THEN (draw.current - 1 + draw.count) % draw.count
                     ELSE (draw.current + 1) % draw.count
    IN  /\ draw.flux.next >= 0 /\ draw.flux.next < draw.count
        /\ draw.r >= 100 * draw.k6 => draw.flux.next = neighbour
        /\ draw.r < 100 * draw.k6 => draw.flux.next = draw.rSlice
        /\ draw.k6 = 0 => draw.flux.next = neighbour

\* a shuffle draw below the stutter value replaced the neighbour by another
\* slice
C29_Shuffled ==
  /\ draw.made /\ draw.k6 = 50 /\ draw.r = 4999
  /\ draw.mode = 0 /\ draw.count >= 3
  /\ draw.flux.next = draw.rSlice
  /\ draw.flux.next # (draw.current + 1) % draw.count

\* C30: for every slice-count control value in [0,1] the active slice count
\* is round(control * 15.999) + 1 clamped to [1, MAX_SLICES], rounding to
\* nearest (the control in hundredths: round(k4 * 15999 / 100000)).
C30_SliceCountRounded ==
  draw.made =>
    LET rounded == ((draw.k4 * 15999 + 50000) \div 100000) + 1
    IN  draw.count = IF rounded < 1 THEN 1
                     ELSE IF rounded > MAX_SLICES THEN MAX_SLICES
                     ELSE rounded

\* C31: the weights of the binned policy skew toward larger counts as the
\* control rises: for each k in {2,4,8} the number of the 10000 draw values
\* that return at least k never decreases from a stutter value to a higher
\* one, in particular from the bin below 25% to the bin below 50%, to the
\* bin below 75%, to the bin of 75% and above.
C31_WeightsSkewUpward ==
  draw.r = 10000 =>
    \A s1 \in StutterValues : \A s2 \in StutterValues : \A k \in {2, 4, 8} :
      LET atLeast(s) ==
            (IF k <= 2 THEN draw.tallies[s][2] ELSE 0)
            + (IF k <= 4 THEN draw.tallies[s][4] ELSE 0)
            + draw.tallies[s][8]
      IN  s1 <= s2 => atLeast(s1) <= atLeast(s2)

\* all draws tallied; each of the four bins gives larger counts more weight
\* than the bin below it
C31_EveryBinHeavier ==
  /\ draw.made /\ draw.r = 10000
  /\ draw.tallies[24][2] + draw.tallies[24][4] + draw.tallies[24][8]
       < draw.tallies[25][2] + draw.tallies[25][4] + draw.tallies[25][8]
  /\ draw.tallies[49][4] + draw.tallies[49][8]
       < draw.tallies[50][4] + draw.tallies[50][8]
  /\ draw.tallies[74][8] < draw.tallies[75][8]
  /\ draw.tallies[75][8] = draw.tallies[100][8]

\* C32: a change of the Toggle 3 position changes none of the parameters
\* mapped to K3-K6 (feedback, slice count, slice length, stutter, wobble,
\* dust, bit crush), and afterwards each of them keeps its value until its
\* knob has moved more than KNOB_TOUCH_THRESHOLD away from its position at
\* the moment of the switch (which knob_prev holds while the knob is
\* untouched).
C32_NoJumpOnShift ==
  [][LET switched == prev_toggle3_pos' # prev_toggle3_pos
         changed == [i \in 2..5 |->
           CASE i = 2 -> knob_feedback' # knob_feedback
                           \/ lofi_wobble' # lofi_wobble
             [] i = 3 -> knob_slice_count' # knob_slice_count
                           \/ lofi_noise' # lofi_noise
             [] i = 4 -> knob_slice_length' # knob_slice_length
                           \/ lofi_bitcrush' # lofi_bitcrush
             [] OTHER -> knob_stutter' # knob_stutter]
     IN  \A i \in 2..5 :
           /\ switched =>
                /\ ~changed[i]
                /\ ~knob_touched'[i]
                /\ knob_prev'[i] = hw'.k[i]
           /\ (running /\ ~knob_touched[i] /\ ~switched) =>
                /\ changed[i] => knob_touched'[i]
                /\ knob_touched'[i] =>
                     Abs(hw'.k[i] - knob_prev[i]) > KNOB_TOUCH_THRESHOLD
                /\ ~knob_touched'[i] => knob_prev'[i] = knob_prev[i]]_vars

\* after a move of Toggle 3 to the lo-fi position K5 was turned by less
\* than the threshold, which left bit crush alone, or by more, which set it
C32_TouchedAfterShift ==
  /\ running /\ prev_toggle3_pos = 2
  /\ \/ hw.k[4] = 2 /\ ~knob_touched[4] /\ lofi_bitcrush = 0
     \/ hw.k[4] = 60 /\ knob_touched[4] /\ lofi_bitcrush = 60
  /\ knob_slice_length = 0
  /\ moves = MaxMoves

\* C33: with Toggle 3 in the MIDDLE position (unused, reserved) moving
\* K3-K6 changes neither the slicing parameters (feedback, slice count,
\* slice length, stutter) nor the lo-fi parameters (wobble, dust, bit
\* crush).
C33_MiddleIsInert ==
  [][(prev_toggle3_pos = 1 /\ prev_toggle3_pos' = 1) =>
       UNCHANGED <<knob_feedback, knob_slice_count, knob_slice_length,
                   knob_stutter, lofi_wobble, lofi_noise,
                   lofi_bitcrush>>]_vars

\* C34: at every serviced read 0 <= position < realized length of the slice
\* being read, so the read offset computed from the position (the position
\* itself forward, length - 1 - position in reverse) already lies in
\* [0, length) and neither defaulting-to-zero clamp of PlaybackSlice takes
\* effect, also after the slice has been re-captured with a shorter length.
C34_ClampsNeverTakeEffect ==
  (ActiveTick /\ ev.pb.served) =>
    /\ 0 <= ev.pb.readPos /\ ev.pb.readPos < ev.pb.readLen
    /\ ev.pb.readOffset = IF ev.pb.readRev
                          THEN ev.pb.readLen - 1 - ev.pb.readPos
                          ELSE ev.pb.readPos
    /\ 0 <= ev.pb.readOffset /\ ev.pb.readOffset < ev.pb.readLen

\* slice 0 was captured again with a shorter length after slice 1 had got
\* the full length, and is read at its last position
C34_ReadOfShortenedSlice ==
  /\ ActiveTick /\ ev.pb.served
  /\ ev.pb.readSlice = 0
  /\ ev.pb.readLen < MAX_SLICE_LENGTH
  /\ sliceLengths[1] = MAX_SLICE_LENGTH
  /\ ev.pb.readPos > 0
  /\ ev.pb.readPos = ev.pb.readLen - 1

\* C35: if the effect stays active and unfrozen and at least one slice has
\* been finalized, playback does not stay silent forever: whatever the
\* slice-count and mode changes, PlaybackSlice services a read from a slice
\* of non-zero length again and again.
C35_PlaybackResumes ==
  <>[](~bypass /\ ~is_frozen /\ hasContent)
    => []<>(ActiveTick /\ ev.pb.served /\ ev.pb.readLen > 0)

\* C36: with 1 active slice from start-up the effect still produces wet
\* signal: if the effect stays active after the first finalize, there is a
\* tick on which PlaybackSlice returns a non-zero sample for a non-zero
\* input.
C36_SingleSliceAudible ==
  <>[](~bypass /\ hasContent)
    => <>(ActiveTick /\ ev.pb.served /\ ev.input # 0 /\ ev.wet # 0)

\* C37: every slice index returned by Ambien Flux GetNextSlice lies in
\* [0, active slice count), for every current index in [0, MAX_SLICES) and
\* every mode, also when the current index is at or above the active slice
\* count after the slice count was lowered.
C37_NextSliceInActiveRange ==
  draw.made => (draw.ambien.next >= 0 /\ draw.ambien.next < draw.count)

\* C38: once content exists, after every playback step
\* 0 <= repeatCount < targetRepeats and targetRepeats is 1, 2, 4 or 8; a
\* slice is played for exactly targetRepeats consecutive full passes before
\* the sequencer selects a next slice, unless a capture collision cuts it
\* short: a collision restarts the count at 0, a tick inside a pass leaves
\* the slice and both counters alone, the end of a pass other than the last
\* of targetRepeats counts one repeat and stays on the slice, and the end of
\* the last one starts at position 0 with a count of 0.
C38_RepeatsCounted ==
  /\ hasContent =>
       /\ 0 <= repeatCount /\ repeatCount < targetRepeats
       /\ targetRepeats \in {1, 2, 4, 8}
  /\ (ActiveTick /\ ev.pb.served) =>
       /\ ev.pb.collided => ev.pb.repAtCheck = 0 /\ ev.pb.posAtCheck = 0
       /\ ev.pb.repAtCheck < ev.pb.trAtCheck
       /\ IF ~ev.pb.passDone
          THEN /\ currentPlaybackSlice = ev.pb.sliceAtCheck
               /\ repeatCount = ev.pb.repAtCheck
               /\ targetRepeats = ev.pb.trAtCheck
               /\ playbackPosition = ev.pb.posAtCheck + 1
          ELSE IF ev.pb.repAtCheck + 1 < ev.pb.trAtCheck
          THEN /\ currentPlaybackSlice = ev.pb.sliceAtCheck
               /\ repeatCount = ev.pb.repAtCheck + 1
               /\ targetRepeats = ev.pb.trAtCheck
               /\ playbackPosition = 0
          ELSE /\ repeatCount = 0
               /\ playbackPosition = 0

\* the last of 2 or more repeats of a slice has ended, without a collision,
\* and the sequencer has selected anew
C38_LastRepeatDone ==
  /\ ActiveTick /\ ev.pb.served /\ ev.pb.passDone
  /\ ~ev.pb.collided
  /\ ev.pb.trAtCheck >= 2
  /\ ev.pb.repAtCheck = ev.pb.trAtCheck - 1
  /\ repeatCount = 0 /\ playbackPosition = 0

\* C39: in DelayLineReverse, for every delay that SetDelay accepts (0 and
\* the values at or below the fade time included) every Write is well
\* defined and a crossfade to the other read head is started exactly once
\* per delay Writes: no Write divides by 0, no delay Writes pass without the
\* start of a crossfade, and two starts in a row are delay Writes apart.
C39_CrossfadeOncePerDelay ==
  draw.wrote =>
    /\ ~draw.undefined
    /\ draw.sinceStart <= draw.delay_
    /\ (draw.started /\ draw.gap > 0) => draw.gap = draw.delay_

====
